---- MODULE Spec2Model ----
(***************************************************************************)
(* A model of the news bot: the headline intake pipeline of main_bot.py    *)
(* (check_news_task), the classifier and translator of llm_handler.py,     *)
(* scrape_all of scraper.py and the settings of config.py.                 *)
(*                                                                         *)
(* Text is a sequence of one-character strings, so that lower-casing,      *)
(* stripping, splitting and matching are computed as the code computes     *)
(* them.                                                                   *)
(***************************************************************************)
EXTENDS Integers, Sequences, FiniteSets, TLC

(***************************************************************************)
(* Characters                                                              *)
(***************************************************************************)
UpperChars == <<"A","B","C","D","E","F","G","H","I","J","K","L","M",
                "N","O","P","Q","R","S","T","U","V","W","X","Y","Z">>

LowerChars == <<"a","b","c","d","e","f","g","h","i","j","k","l","m",
                "n","o","p","q","r","s","t","u","v","w","x","y","z">>

DigitChars == <<"0","1","2","3","4","5","6","7","8","9">>

\* A letter outside ASCII, in its two cases.
AccentedUpper == <<"É">>

AccentedLower == <<"é">>

\* Code point order of the word characters: digits, upper case, "_", lower
\* case, and the letters outside ASCII after them.
WordOrder == DigitChars \o UpperChars \o <<"_">> \o LowerChars \o AccentedUpper \o AccentedLower

Range(s) == {s[i] : i \in 1..Len(s)}

UpperSet == Range(UpperChars \o AccentedUpper)

LowerSet == Range(LowerChars \o AccentedLower)

WordSet == Range(WordOrder)

IndexOf(s, c) == CHOOSE i \in 1..Len(s) : s[i] = c

IsUpper(c) == c \in UpperSet

IsLower(c) == c \in LowerSet

\* \w of Python's re on str: letters (of any alphabet), digits and the
\* underscore.
IsWord(c) == c \in WordSet

\* \s of Python's re, and the separators of str.split().
IsSpace(c) == c \in {" ", "\t", "\n"}

Ord(c) == IndexOf(WordOrder, c)

\* str.lower() on one character.
LowerChar(c) ==
    IF IsUpper(c) THEN (LowerChars \o AccentedLower)[IndexOf(UpperChars \o AccentedUpper, c)] ELSE c

\* str.upper() on one character.
UpperChar(c) ==
    IF IsLower(c) THEN (UpperChars \o AccentedUpper)[IndexOf(LowerChars \o AccentedLower, c)] ELSE c

\* str.lower()
Lower(s) == [i \in 1..Len(s) |-> LowerChar(s[i])]

\* str.upper()
Upper(s) == [i \in 1..Len(s) |-> UpperChar(s[i])]

\* str.capitalize(): first character upper-cased, the rest lower-cased.
Capitalize(s) == [i \in 1..Len(s) |-> IF i = 1 THEN UpperChar(s[i]) ELSE LowerChar(s[i])]

RECURSIVE LStrip(_)
LStrip(s) == IF s # <<>> /\ IsSpace(Head(s)) THEN LStrip(Tail(s)) ELSE s

RECURSIVE RStrip(_)
RStrip(s) == IF s # <<>> /\ IsSpace(s[Len(s)]) THEN RStrip(SubSeq(s, 1, Len(s) - 1)) ELSE s

\* str.strip()
Strip(s) == RStrip(LStrip(s))

RECURSIVE SplitFrom(_, _, _)
SplitFrom(s, i, cur) ==
    IF i > Len(s) THEN (IF cur = <<>> THEN <<>> ELSE <<cur>>)
    ELSE IF IsSpace(s[i])
         THEN (IF cur = <<>> THEN SplitFrom(s, i + 1, <<>>)
               ELSE <<cur>> \o SplitFrom(s, i + 1, <<>>))
         ELSE SplitFrom(s, i + 1, Append(cur, s[i]))

\* str.split(): the maximal runs of non-whitespace characters.
Split(s) == SplitFrom(s, 1, <<>>)

RECURSIVE JoinTokens(_)
\* ' '.join(tokens)
JoinTokens(ts) ==
    IF ts = <<>> THEN <<>>
    ELSE IF Len(ts) = 1 THEN ts[1]
    ELSE ts[1] \o <<" ">> \o JoinTokens(Tail(ts))

\* s[i:j] found at position i of text (1-based), compared exactly.
MatchAt(text, i, pat) ==
    /\ i >= 1
    /\ i + Len(pat) - 1 <= Len(text)
    /\ SubSeq(text, i, i + Len(pat) - 1) = pat

\* pat in text
Contains(text, pat) == \E i \in 1..(Len(text) + 1) : MatchAt(text, i, pat)

(***************************************************************************)
(* normalize_title                                                         *)
(***************************************************************************)
\* Faulty variant: the whitespace is collapsed before the punctuation is
\* removed.
normalize_title_collapses_first(title) ==
    IF title = <<>> THEN <<>>
    ELSE LET text == JoinTokens(Split(Lower(title)))
         IN  SelectSeq(text, LAMBDA c : IsWord(c) \/ IsSpace(c))

normalize_title(title) ==
    IF title = <<>> THEN <<>>
    ELSE LET text  == Lower(title)
             clean == SelectSeq(text, LAMBDA c : IsWord(c) \/ IsSpace(c))
         IN  JoinTokens(Split(clean))

(***************************************************************************)
(* fuzz.token_set_ratio of thefuzz, as the library computes it             *)
(***************************************************************************)
IsAscii(c) ==
    \/ IsWord(c) /\ c \notin Range(AccentedUpper \o AccentedLower)
    \/ IsSpace(c)
    \/ c \in {"!", ".", ",", "/", "%", "'", "-", "$", "?", ":"}

\* utils.full_process(s, force_ascii=True): non-ASCII characters dropped,
\* every character outside \w replaced by a space, lower-cased, stripped.
full_process(s) ==
    LET ascii == SelectSeq(s, IsAscii)
        spaced == [i \in 1..Len(ascii) |-> IF IsWord(ascii[i]) THEN ascii[i] ELSE " "]
    IN  Strip(Lower(spaced))

RECURSIVE LexLess(_, _)
\* a < b for two strings of word characters (Python's str ordering).
LexLess(a, b) ==
    IF b = <<>> THEN FALSE
    ELSE IF a = <<>> THEN TRUE
    ELSE IF Head(a) = Head(b) THEN LexLess(Tail(a), Tail(b))
    ELSE Ord(Head(a)) < Ord(Head(b))

RECURSIVE SortTokens(_)
\* sorted(token_set)
SortTokens(S) ==
    IF S = {} THEN <<>>
    ELSE LET m == CHOOSE t \in S : \A u \in S \ {t} : LexLess(t, u)
         IN  <<m>> \o SortTokens(S \ {m})

Max2(a, b) == IF a >= b THEN a ELSE b

RECURSIVE LcsRow(_, _, _, _, _)
\* One row of the longest-common-subsequence table; acc[j] is the entry to
\* the left, prev[j] the entry up-left and prev[j + 1] the entry above.
LcsRow(prev, c, b, j, acc) ==
    IF j > Len(b) THEN acc
    ELSE LET v == IF c = b[j] THEN prev[j] + 1 ELSE Max2(prev[j + 1], acc[j])
         IN  LcsRow(prev, c, b, j + 1, Append(acc, v))

RECURSIVE LcsRows(_, _, _, _)
LcsRows(a, b, i, prev) ==
    IF i > Len(a) THEN prev
    ELSE LcsRows(a, b, i + 1, LcsRow(prev, a[i], b, 1, <<0>>))

\* Length of the longest common subsequence of a and b.
LcsLen(a, b) == LcsRows(a, b, 1, [j \in 1..(Len(b) + 1) |-> 0])[Len(b) + 1]

\* fuzz.ratio: 100 * 2 * LCS / (len(a) + len(b)), rounded to an integer.
ratio(a, b) ==
    LET lensum == Len(a) + Len(b)
    IN  IF lensum = 0 THEN 100
        ELSE (400 * LcsLen(a, b) + lensum) \div (2 * lensum)

token_set_ratio(s1, s2) ==
    LET p1 == full_process(s1)
        p2 == full_process(s2)
        tokens1 == Range(Split(p1))
        tokens2 == Range(Split(p2))
        sorted_sect == JoinTokens(SortTokens(tokens1 \cap tokens2))
        sorted_1to2 == JoinTokens(SortTokens(tokens1 \ tokens2))
        sorted_2to1 == JoinTokens(SortTokens(tokens2 \ tokens1))
        combined_1to2 == Strip(sorted_sect \o <<" ">> \o sorted_1to2)
        combined_2to1 == Strip(sorted_sect \o <<" ">> \o sorted_2to1)
    IN  IF p1 = <<>> \/ p2 = <<>> THEN 0
        ELSE Max2(ratio(sorted_sect, combined_1to2),
                  Max2(ratio(sorted_sect, combined_2to1),
                       ratio(combined_1to2, combined_2to1)))

(***************************************************************************)
(* config.py                                                               *)
(***************************************************************************)
FUZZY_MATCH_THRESHOLD == 88

\* Sentiment scores are in hundredths: 0.1 is 10.
SENTIMENT_POSITIVE_THRESHOLD == 10

SENTIMENT_NEGATIVE_THRESHOLD == -10

\* USER_KEYWORDS as loaded from the environment: stripped and lower-cased.
RawKeywords == {<<" ","O","i","l">>}

USER_KEYWORDS == {Lower(Strip(k)) : k \in {r \in RawKeywords : Strip(r) # <<>>}}

RECURSIVE SortByLenDesc(_)
\* sorted(terms, key=len, reverse=True); the sort is stable.
SortByLenDesc(ts) ==
    IF ts = <<>> THEN <<>>
    ELSE LET longest == CHOOSE i \in 1..Len(ts) :
                            /\ \A j \in 1..Len(ts) : Len(ts[j]) <= Len(ts[i])
                            /\ \A j \in 1..(i - 1) : Len(ts[j]) < Len(ts[i])
         IN  <<ts[longest]>> \o
             SortByLenDesc([k \in 1..(Len(ts) - 1) |-> IF k < longest THEN ts[k] ELSE ts[k + 1]])

\* A part of the configured vocabulary, in the order config.py lists it.
RawTerms == << <<"f","e","d">>, <<"g","d","p">>, <<"e","u","r","/","u","s","d">> >>

NO_TRANSLATE_TERMS == SortByLenDesc(RawTerms)

CatStocks == <<"S","t","o","c","k","s">>

CatEconomy == <<"E","c","o","n","o","m","y">>

CatForex == <<"F","o","r","e","x">>

CatCrypto == <<"C","r","y","p","t","o">>

CatGeopolitics == <<"G","e","o","p","o","l","i","t","i","c","s">>

CatCommodities == <<"C","o","m","m","o","d","i","t","i","e","s">>

CatGeneral == <<"G","e","n","e","r","a","l">>

CatUnknown == <<"U","n","k","n","o","w","n">>

\* The keys of config.CATEGORIES.
CATEGORIES == {CatStocks, CatEconomy, CatForex, CatCrypto, CatGeopolitics,
               CatCommodities, CatGeneral, CatUnknown}

\* config.CATEGORIES.get(category, DEFAULT_CATEGORY_COLOR)
CategoryColor(category) ==
    CASE category = CatStocks      -> "blue"
      [] category = CatEconomy     -> "gold"
      [] category = CatForex       -> "purple"
      [] category = CatCrypto      -> "orange"
      [] category = CatGeopolitics -> "red"
      [] category = CatCommodities -> "dark_green"
      [] category = CatGeneral     -> "light_grey"
      [] category = CatUnknown     -> "dark_grey"
      [] OTHER                     -> "blurple"

(***************************************************************************)
(* llm_handler.evaluate_significance_and_category                          *)
(***************************************************************************)
\* A JSON value by its type, as isinstance sees it.
JBool(b) == [t |-> "bool", b |-> b, s |-> <<>>]

JStr(s) == [t |-> "str", b |-> FALSE, s |-> s]

JNum == [t |-> "num", b |-> FALSE, s |-> <<>>]

JMissing == [t |-> "missing", b |-> FALSE, s |-> <<>>]

\* What the awaited client.chat call comes back with: kind is "ok" (a
\* response), "response_error" (ollama.ResponseError), "timeout" or
\* "exception"; json says what json.loads makes of the content: "object",
\* "not_object" (a list, a number, a string) or "invalid".
LLMResponse(kind, json, significant, category, reason) ==
    [kind |-> kind, json |-> json, significant |-> significant,
     category |-> category, reason |-> reason]

\* The function's None.
NoEvaluation == [valid |-> FALSE, significant |-> FALSE, category |-> <<>>, reason |-> <<>>]

\* Faulty variant: a response without a category is given the default one.
evaluate_defaulting(text, resp) ==
    IF text = <<>> THEN NoEvaluation
    ELSE IF resp.kind # "ok" THEN NoEvaluation
    ELSE IF resp.json # "object" THEN NoEvaluation
    ELSE IF resp.significant.t = "bool" /\ resp.category.t \in {"str", "missing"}
         THEN LET given == IF resp.category.t = "missing" THEN CatUnknown ELSE resp.category.s
                  capitalized == Capitalize(Strip(given))
                  category == IF capitalized \in CATEGORIES THEN capitalized ELSE CatGeneral
              IN  IF resp.reason.t \notin {"str", "missing"} THEN NoEvaluation
                  ELSE [valid |-> TRUE, significant |-> resp.significant.b,
                        category |-> category, reason |-> Strip(resp.reason.s)]
         ELSE NoEvaluation

\* Faulty variant: the category is stored as the LLM wrote it.
evaluate_raw_category(text, resp) ==
    IF text = <<>> THEN NoEvaluation
    ELSE IF resp.kind # "ok" THEN NoEvaluation
    ELSE IF resp.json # "object" THEN NoEvaluation
    ELSE IF resp.significant.t = "bool" /\ resp.category.t = "str"
         THEN IF resp.reason.t \notin {"str", "missing"} THEN NoEvaluation
              ELSE [valid |-> TRUE, significant |-> resp.significant.b,
                    category |-> resp.category.s, reason |-> Strip(resp.reason.s)]
         ELSE NoEvaluation

evaluate_significance_and_category(text, resp) ==
    IF text = <<>> THEN NoEvaluation
    ELSE IF resp.kind # "ok" THEN NoEvaluation
    ELSE IF resp.json = "invalid" THEN NoEvaluation
    \* data.get on a list, number or string raises; the outer handler returns None
    ELSE IF resp.json # "object" THEN NoEvaluation
    ELSE IF resp.significant.t = "bool" /\ resp.category.t = "str"
         THEN LET capitalized == Capitalize(Strip(resp.category.s))
                  category == IF capitalized \in CATEGORIES THEN capitalized ELSE CatGeneral
              IN  \* data.get("reason", "").strip() raises on a reason that is
                  \* not a string; the outer handler returns None
                  IF resp.reason.t \notin {"str", "missing"} THEN NoEvaluation
                  ELSE [valid |-> TRUE, significant |-> resp.significant.b,
                        category |-> category, reason |-> Strip(resp.reason.s)]
         ELSE NoEvaluation

(***************************************************************************)
(* llm_handler.translate_en_to_el                                          *)
(***************************************************************************)
\* str(n) for a placeholder index.
IntToStr(n) ==
    IF n < 10 THEN <<DigitChars[n + 1]>>
    ELSE <<DigitChars[(n \div 10) + 1], DigitChars[(n % 10) + 1]>>

\* f"__PLACEHOLDER_{placeholder_index}__"
Placeholder(n) ==
    <<"_","_","P","L","A","C","E","H","O","L","D","E","R","_">> \o IntToStr(n) \o <<"_","_">>

\* re.search(r'\W', term)
HasNonWord(term) == \E i \in 1..Len(term) : ~IsWord(term[i])

\* Whether the term's pattern matches at position i of the text: the term
\* itself, ignoring case, and for a term of word characters only a \b on
\* each side.
PatternMatchesAt(text, i, term) ==
    /\ i + Len(term) - 1 <= Len(text)
    /\ Lower(SubSeq(text, i, i + Len(term) - 1)) = Lower(term)
    /\ HasNonWord(term) \/
         /\ (i = 1 \/ ~IsWord(text[i - 1]))
         /\ (i + Len(term) - 1 = Len(text) \/ ~IsWord(text[i + Len(term)]))

RECURSIVE FindIter(_, _, _)
\* pattern.finditer(current_text): the start positions of the leftmost
\* non-overlapping matches, from position i on.
FindIter(text, term, i) ==
    IF i > Len(text) THEN <<>>
    ELSE IF PatternMatchesAt(text, i, term)
         THEN <<i>> \o FindIter(text, term, i + Len(term))
         ELSE FindIter(text, term, i + 1)

RECURSIVE ReplaceReversed_stores_term(_, _, _, _)
\* Faulty variant: the dict keeps the configured term, not the matched text.
ReplaceReversed_stores_term(st, term, matches, k) ==
    IF k = 0 THEN st
    ELSE LET start == matches[k]
             stop  == start + Len(term) - 1
             placeholder == Placeholder(st.index)
         IN  ReplaceReversed_stores_term(
                 [text |-> SubSeq(st.text, 1, start - 1) \o placeholder
                           \o SubSeq(st.text, stop + 1, Len(st.text)),
                  placeholders |-> Append(st.placeholders, <<placeholder, term>>),
                  index |-> st.index + 1],
                 term, matches, k - 1)

RECURSIVE ReplaceReversed(_, _, _, _)
\* for match in reversed(matches): the k-th match is replaced by the next
\* placeholder. st is [text, placeholders, index]; placeholders lists the
\* dict's items in insertion order.
ReplaceReversed(st, term, matches, k) ==
    IF k = 0 THEN st
    ELSE LET start == matches[k]
             stop  == start + Len(term) - 1
             original_term == SubSeq(st.text, start, stop)
             placeholder == Placeholder(st.index)
         IN  ReplaceReversed(
                 [text |-> SubSeq(st.text, 1, start - 1) \o placeholder
                           \o SubSeq(st.text, stop + 1, Len(st.text)),
                  placeholders |-> Append(st.placeholders, <<placeholder, original_term>>),
                  index |-> st.index + 1],
                 term, matches, k - 1)

RECURSIVE PreProcess(_, _, _)
\* Step 1 of translate_en_to_el: for term in config.NO_TRANSLATE_TERMS.
PreProcess(st, terms, n) ==
    IF n > Len(terms) THEN st
    ELSE LET matches == FindIter(st.text, terms[n], 1)
         IN  PreProcess(ReplaceReversed(st, terms[n], matches, Len(matches)), terms, n + 1)

RECURSIVE ReplaceAll(_, _, _)
\* str.replace(old, new)
ReplaceAll(text, old, new) ==
    IF text = <<>> THEN <<>>
    ELSE IF MatchAt(text, 1, old)
         THEN new \o ReplaceAll(SubSeq(text, Len(old) + 1, Len(text)), old, new)
         ELSE <<Head(text)>> \o ReplaceAll(Tail(text), old, new)

\* sorted(placeholders.items(), key=lambda item: len(item[0]), reverse=True)
SortItemsByKeyLenDesc(items) ==
    LET order == SortByLenDesc([i \in 1..Len(items) |-> items[i][1]])
    IN  [i \in 1..Len(items) |->
            items[CHOOSE j \in 1..Len(items) : items[j][1] = order[i]]]

RECURSIVE PostProcess(_, _, _)
\* Step 3 of translate_en_to_el: every placeholder replaced back.
PostProcess(text, items, n) ==
    IF n > Len(items) THEN text
    ELSE PostProcess(ReplaceAll(text, items[n][1], items[n][2]), items, n + 1)

RECURSIVE UpperOutside(_, _)
\* text upper-cased outside the placeholder tokens of items.
UpperOutside(text, items) ==
    IF text = <<>> THEN <<>>
    ELSE IF \E k \in 1..Len(items) : MatchAt(text, 1, items[k][1])
         THEN LET k == CHOOSE k \in 1..Len(items) : MatchAt(text, 1, items[k][1])
                  n == Len(items[k][1])
              IN  SubSeq(text, 1, n) \o UpperOutside(SubSeq(text, n + 1, Len(text)), items)
         ELSE <<UpperChar(Head(text))>> \o UpperOutside(Tail(text), items)

\* What deepl_translator.translate_text gives for processed_text: "raise"
\* (DeepLException or another error), "empty" (no result, or a result with
\* empty text), "upper" (a translation that changes every character outside
\* the placeholder tokens and keeps the tokens), "lower_all" (one that also
\* rewrites the tokens).  <<>> stands for the falsy results.
DeepLKinds == {"raise", "empty", "upper"}

DeepLText(kind, processed_text, items) ==
    CASE kind = "upper"     -> UpperOutside(processed_text, items)
      [] kind = "lower_all" -> Lower(processed_text)
      [] OTHER              -> <<>>

\* Faulty variant: the request is made without looking at the translator.
RequestsDeepL_unguarded(available, text) == text # <<>>

\* Whether the call gets as far as deepl_translator.translate_text.
RequestsDeepL(available, text) == available /\ text # <<>>

\* Faulty variant: when the translation API fails or answers with nothing,
\* the text that was sent to it is returned.
translate_en_to_el_fallback(available, text, kind) ==
    IF ~available THEN <<>>
    ELSE IF text = <<>> THEN <<>>
    ELSE LET st == PreProcess([text |-> text, placeholders |-> <<>>, index |-> 0],
                              NO_TRANSLATE_TERMS, 1)
             result_text == DeepLText(kind, st.text, st.placeholders)
         IN  IF kind = "raise" THEN st.text
             ELSE IF result_text = <<>> THEN st.text
             ELSE PostProcess(result_text, SortItemsByKeyLenDesc(st.placeholders), 1)

\* The returned string; <<>> stands for None.  available is whether
\* llm_handler.deepl_translator was initialized.
translate_en_to_el(available, text, kind) ==
    IF ~available THEN <<>>
    ELSE IF text = <<>> THEN <<>>
    ELSE LET st == PreProcess([text |-> text, placeholders |-> <<>>, index |-> 0],
                              NO_TRANSLATE_TERMS, 1)
             result_text == DeepLText(kind, st.text, st.placeholders)
         IN  IF kind = "raise" THEN <<>>
             ELSE IF result_text = <<>> THEN <<>>
             ELSE PostProcess(result_text, SortItemsByKeyLenDesc(st.placeholders), 1)

(***************************************************************************)
(* Bounds and the inputs the environment supplies                          *)
(***************************************************************************)
\* maxlen of the seen_headlines deque (1000 in main_bot.py).
MAX_SEEN_HEADLINES == 2

\* maxlen of the seen_normalized_titles deque (200 in main_bot.py).
MAX_SEEN_TITLES == 1

\* The most headlines one scrape_all call returns, over all sources.
MaxHeadlinesPerCycle == 2

\* The most iterations of the check_news_task loop that are followed.
MaxCycles == 2

\* The configured sources that have a scraper, in the order of
\* config.NEWS_SOURCES.
SourceOrder == <<"A", "B">>

Sources == Range(SourceOrder)

TitleFed == <<"F","e","d"," ","u","p",".">>

TitleFedLoud == <<"F","E","D"," ","U","P","!">>

TitleOil == <<"O","i","l">>

TitleBang == <<"!">>

\* A scraped (title, url, detected_time) tuple; detected_time is never read.
Headline(title, url) == [title |-> title, url |-> url]

\* The articles each source may list.
HeadlinePool(s) ==
    IF s = "A"
    THEN {Headline(TitleFed, "u1"), Headline(TitleOil, "u1")}
    ELSE {Headline(TitleFedLoud, "u2"), Headline(TitleBang, "u1")}

SeqsUpTo(S, n) == UNION {[1..k -> S] : k \in 0..n}

RECURSIVE SumLen(_, _)
SumLen(f, S) ==
    IF S = {} THEN 0
    ELSE LET x == CHOOSE x \in S : TRUE IN Len(f[x]) + SumLen(f, S \ {x})

\* What the scraper task of source s ends with: the list it parsed, the
\* empty list when fetch_html returned None, or an exception.
ScraperOutcomes(s) ==
    {[raised |-> FALSE, fetched |-> TRUE, headlines |-> hs] :
        hs \in SeqsUpTo(HeadlinePool(s), MaxHeadlinesPerCycle)}
    \cup {[raised |-> FALSE, fetched |-> FALSE, headlines |-> <<>>],
          [raised |-> TRUE, fetched |-> TRUE, headlines |-> <<>>]}

\* Faulty variant: gather without return_exceptions, one exception empties
\* the whole result.
scrape_all_fail_fast(outcomes) ==
    [s \in Sources |-> IF \E r \in Sources : outcomes[r].raised
                       THEN <<>> ELSE outcomes[s].headlines]

\* scraper.scrape_all: the gathered outcomes turned into the results dict;
\* a scraper that raised contributes an empty list.
scrape_all(outcomes) ==
    [s \in Sources |-> IF outcomes[s].raised THEN <<>> ELSE outcomes[s].headlines]

ScrapeOutcomes ==
    {o \in [Sources -> UNION {ScraperOutcomes(s) : s \in Sources}] :
        /\ \A s \in Sources : o[s] \in ScraperOutcomes(s)
        /\ SumLen(scrape_all(o), Sources) <= MaxHeadlinesPerCycle}

ReasonX == <<"x">>

\* Responses of the LLM collaborator.
LLMResponses ==
    {LLMResponse("timeout", "invalid", JMissing, JMissing, JMissing),
     LLMResponse("ok", "invalid", JMissing, JMissing, JMissing),
     LLMResponse("ok", "object", JBool(TRUE), JStr(CatEconomy), JStr(ReasonX)),
     LLMResponse("ok", "object", JBool(FALSE), JStr(CatEconomy), JStr(ReasonX)),
     LLMResponse("ok", "object", JBool(FALSE), JStr(<<" ","u","n","k","n","o","w","n">>), JStr(ReasonX)),
     LLMResponse("ok", "object", JBool(TRUE), JStr(<<"s","t","o","c","k">>), JStr(ReasonX)),
     LLMResponse("ok", "object", JBool(TRUE), JMissing, JStr(ReasonX)),
     LLMResponse("ok", "object", JStr(<<"y","e","s">>), JStr(CatEconomy), JStr(ReasonX))}

\* What building the alert ends with: the compound sentiment score of
\* polarity_scores (in hundredths), or an exception out of the sentiment
\* scoring or the embed construction.
AssemblyOutcomes ==
    {[raised |-> FALSE, compound |-> c] : c \in {-10, 0, 10}}
    \cup {[raised |-> TRUE, compound |-> 0]}

\* Answers of the sink to channel.send.
SendAnswers == {"ok", "Forbidden", "RateLimited", "Error"}

(***************************************************************************)
(* State                                                                   *)
(***************************************************************************)
VARIABLES
    seen_headlines,          \* deque of unique ids, maxlen MAX_SEEN_HEADLINES
    seen_normalized_titles,  \* deque of normalized titles, maxlen MAX_SEEN_TITLES
    DISCORD_BOT_TOKEN,       \* whether config.DISCORD_BOT_TOKEN is set
    DISCORD_CHANNEL_ID,      \* whether config.DISCORD_CHANNEL_ID is set
    deepl_translator,        \* whether llm_handler.deepl_translator is set
    bot_closed,              \* the bot was closed; its tasks are cancelled
    heartbeat_launched,      \* running heartbeat_task loops
    heartbeat_failed,        \* history: the last publish of heartbeat_task failed
    check_news_launched,     \* running check_news_task loops
    in_cycle,                \* check_news_task bodies being executed
    pc,                      \* where the body of check_news_task is
    all_new_headlines,       \* the dict scrape_all returned
    src_idx,                 \* position of `source` in the dict
    pos,                     \* position in reversed(headlines)
    scraped,                 \* history: what the scraper tasks of the last scrape ended with
    cycle_failed,            \* history: the last body ended in a handler at the cycle level
    cycle_processed_ids,
    processed_count,
    posted_count,
    boost_by_keyword,
    evaluation_result,
    category,
    greek_translation,
    embed,
    outcome,                 \* history: how dedup classified the headline
    classify_calls,          \* history: calls of the classifier for the headline
    translate_calls,         \* history: calls of translate_en_to_el for it
    deepl_calls,             \* history: requests to the translation API for it
    deepl_answer,            \* history: how the translation API answered the last one
    publishes,               \* history: the embeds handed to channel.send for it
    answers,                 \* history: the sink's answers to them
    cycles_started,          \* history: iterations of check_news_task begun
    recorded_new,            \* history: the (id, title) pairs classified New so far
    appended_ids,            \* history: the last MAX_SEEN_HEADLINES + 1 ids appended
                             \* to seen_headlines, oldest first
    call                     \* a single application of one of the functions: its
                             \* name, its arguments and, once applied, its result

windows == <<seen_headlines, seen_normalized_titles>>

\* The settings config.py refuses to load without.
essentials == <<DISCORD_BOT_TOKEN, DISCORD_CHANNEL_ID>>

tasks == <<essentials, deepl_translator, call, bot_closed, heartbeat_launched, heartbeat_failed,
           check_news_launched, in_cycle, cycles_started, recorded_new, appended_ids>>

\* What only on_ready, the shutdown and the start or end of a cycle change.
settings == <<essentials, deepl_translator, call, bot_closed, heartbeat_launched, heartbeat_failed,
              check_news_launched, in_cycle, cycles_started>>

cycle == <<pc, all_new_headlines, scraped, cycle_failed, src_idx, pos, cycle_processed_ids,
           processed_count, posted_count>>

locals == <<boost_by_keyword, evaluation_result, category, greek_translation, embed>>

history == <<outcome, classify_calls, translate_calls, deepl_calls, deepl_answer, publishes,
             answers>>

vars == <<windows, tasks, cycle, locals, history>>

\* No function application is being examined.
NoCall == [op |-> "none", input |-> <<>>, done |-> FALSE, output |-> <<>>]

NoEmbed == [title |-> <<>>, url |-> "", description |-> <<>>, category |-> <<>>,
            sentiment |-> "", reason |-> <<>>, color |-> ""]

NoHeadlines == [s \in Sources |-> <<>>]

NoScraped == [s \in Sources |-> [raised |-> FALSE, fetched |-> TRUE, headlines |-> <<>>]]

\* The points where check_news_task is suspended in an await (or, at
\* "idle", where its loop sleeps until the next iteration).
AwaitPcs == {"idle", "scrape", "classify", "translate", "send",
             "ratelimit_sleep", "resend", "sleep", "source_sleep"}

\* The points inside the processing of one headline.
HeadlinePcs == {"headline", "classify", "translate", "send",
                "ratelimit_sleep", "resend", "sleep", "next", "break"}

\* Faulty variant: the batch is walked in scrape order.
Reverse_scrape_order(s) == s

\* reversed(headlines)
Reverse(s) == [i \in 1..Len(s) |-> s[Len(s) + 1 - i]]

\* The loop variables source, title and url.
source == SourceOrder[src_idx]

Batch == Reverse(all_new_headlines[source])

title == Batch[pos].title

url == Batch[pos].url

\* f"{source}:{url}"
UniqueId(src, u) == <<src, u>>

\* Faulty variant: a plain list, nothing ever leaves.
DequeAppend_unbounded(d, x, maxlen) == Append(d, x)

\* Faulty variant: when the deque is full the newest entry makes room.
DequeAppend_evicts_newest(d, x, maxlen) ==
    IF maxlen = 0 THEN d
    ELSE IF Len(d) >= maxlen THEN Append(SubSeq(d, 1, Len(d) - 1), x)
    ELSE Append(d, x)

\* deque.append with maxlen: the oldest entry leaves when the deque is full.
DequeAppend(d, x, maxlen) ==
    IF maxlen = 0 THEN d
    ELSE IF Len(d) >= maxlen THEN Append(Tail(d), x)
    ELSE Append(d, x)

\* The last MAX_SEEN_HEADLINES + 1 entries of a log.
LastAppended(log) ==
    IF Len(log) > MAX_SEEN_HEADLINES + 1 THEN Tail(log) ELSE log

\* config.py raises ValueError when the token or the channel id is missing,
\* and the guard before bot.run asks for both again: with one of them
\* missing nothing of the bot runs.
ConfigLoads(token, channel_id) == token /\ channel_id

\* Faulty variant: the translator is built whether or not there is a key.
InitTranslator_without_key(key, built) == built

\* llm_handler.deepl_translator after the module is loaded: set when
\* DEEPL_API_KEY is there and deepl.Translator(key) did not raise (built).
InitTranslator(key, built) == key /\ built

\* The module globals and the task state once the modules are loaded.
Constructed ==
    /\ seen_headlines = <<>>
    /\ seen_normalized_titles = <<>>
    /\ DISCORD_BOT_TOKEN \in BOOLEAN
    /\ DISCORD_CHANNEL_ID \in BOOLEAN
    /\ deepl_translator \in {InitTranslator(key, built) : key \in BOOLEAN, built \in BOOLEAN}
    /\ bot_closed = FALSE
    /\ heartbeat_launched = 0
    /\ heartbeat_failed = FALSE
    /\ check_news_launched = 0
    /\ in_cycle = 0
    /\ pc = "idle"
    /\ all_new_headlines = NoHeadlines
    /\ scraped = NoScraped
    /\ cycle_failed = FALSE
    /\ src_idx = 1
    /\ pos = 1
    /\ cycle_processed_ids = {}
    /\ processed_count = 0
    /\ posted_count = 0
    /\ boost_by_keyword = FALSE
    /\ evaluation_result = NoEvaluation
    /\ category = <<>>
    /\ greek_translation = <<>>
    /\ embed = NoEmbed
    /\ outcome = "None"
    /\ classify_calls = 0
    /\ translate_calls = 0
    /\ deepl_calls = 0
    /\ deepl_answer = "none"
    /\ publishes = <<>>
    /\ answers = <<>>
    /\ cycles_started = 0
    /\ recorded_new = {}
    /\ appended_ids = <<>>

Init ==
    /\ Constructed
    /\ call = NoCall

(***************************************************************************)
(* Deduplication (check_news_task, steps 1 to 3 and the NEW branch)        *)
(***************************************************************************)
\* The fuzzy loop finds a seen title scoring at or above the threshold.
FuzzyMatchAt(norm, titles, threshold) ==
    /\ norm # <<>>
    /\ \E i \in 1..Len(titles) :
          token_set_ratio(norm, titles[i]) >= threshold

\* The loop with the threshold of config.py.
FuzzyMatch(norm, titles) == FuzzyMatchAt(norm, titles, FUZZY_MATCH_THRESHOLD)

DedupResult(o, ids, sh, st) == [outcome |-> o, ids |-> ids, sh |-> sh, st |-> st]

\* Faulty variant: a fuzzy-title duplicate is not recorded in the exact-ID
\* window.
check_and_record_fuzzy_unrecorded(uid, norm, ids, sh, st) ==
    IF uid \in ids
    THEN DedupResult("IntraCycle", ids, sh, st)
    ELSE IF FuzzyMatch(norm, st)
    THEN DedupResult("Fuzzy", ids \cup {uid}, sh, st)
    ELSE IF uid \in Range(sh)
    THEN DedupResult("Exact", ids \cup {uid}, sh,
                     IF norm # <<>> /\ norm \notin Range(st)
                     THEN DequeAppend(st, norm, MAX_SEEN_TITLES) ELSE st)
    ELSE DedupResult("New", ids \cup {uid},
                     DequeAppend(sh, uid, MAX_SEEN_HEADLINES),
                     IF norm # <<>> THEN DequeAppend(st, norm, MAX_SEEN_TITLES) ELSE st)

\* Faulty variant: an exact-ID duplicate does not backfill its title.
check_and_record_no_backfill(uid, norm, ids, sh, st) ==
    IF uid \in ids
    THEN DedupResult("IntraCycle", ids, sh, st)
    ELSE IF FuzzyMatch(norm, st)
    THEN DedupResult("Fuzzy", ids \cup {uid},
                     IF uid \in Range(sh) THEN sh ELSE DequeAppend(sh, uid, MAX_SEEN_HEADLINES),
                     st)
    ELSE IF uid \in Range(sh)
    THEN DedupResult("Exact", ids \cup {uid}, sh, st)
    ELSE DedupResult("New", ids \cup {uid},
                     DequeAppend(sh, uid, MAX_SEEN_HEADLINES),
                     IF norm # <<>> THEN DequeAppend(st, norm, MAX_SEEN_TITLES) ELSE st)

\* Faulty variant: the title of a new headline is recorded even when its
\* normalized form is empty.
check_and_record_records_empty(uid, norm, ids, sh, st) ==
    IF uid \in ids
    THEN DedupResult("IntraCycle", ids, sh, st)
    ELSE IF FuzzyMatch(norm, st)
    THEN DedupResult("Fuzzy", ids \cup {uid},
                     IF uid \in Range(sh) THEN sh ELSE DequeAppend(sh, uid, MAX_SEEN_HEADLINES),
                     st)
    ELSE IF uid \in Range(sh)
    THEN DedupResult("Exact", ids \cup {uid}, sh,
                     IF norm # <<>> /\ norm \notin Range(st)
                     THEN DequeAppend(st, norm, MAX_SEEN_TITLES) ELSE st)
    ELSE DedupResult("New", ids \cup {uid},
                     DequeAppend(sh, uid, MAX_SEEN_HEADLINES),
                     DequeAppend(st, norm, MAX_SEEN_TITLES))

\* Faulty variant: the exact-ID window is looked up before the fuzzy loop.
check_and_record_exact_first(uid, norm, ids, sh, st) ==
    IF uid \in ids
    THEN DedupResult("IntraCycle", ids, sh, st)
    ELSE IF uid \in Range(sh)
    THEN DedupResult("Exact", ids \cup {uid}, sh,
                     IF norm # <<>> /\ norm \notin Range(st)
                     THEN DequeAppend(st, norm, MAX_SEEN_TITLES) ELSE st)
    ELSE IF FuzzyMatch(norm, st)
    THEN DedupResult("Fuzzy", ids \cup {uid}, DequeAppend(sh, uid, MAX_SEEN_HEADLINES), st)
    ELSE DedupResult("New", ids \cup {uid},
                     DequeAppend(sh, uid, MAX_SEEN_HEADLINES),
                     IF norm # <<>> THEN DequeAppend(st, norm, MAX_SEEN_TITLES) ELSE st)

\* Faulty variant: the fuzzy loop runs before the look-up in the set of the
\* ids of the cycle.
check_and_record_fuzzy_first(uid, norm, ids, sh, st) ==
    IF FuzzyMatch(norm, st)
    THEN DedupResult("Fuzzy", ids \cup {uid},
                     IF uid \in Range(sh) THEN sh ELSE DequeAppend(sh, uid, MAX_SEEN_HEADLINES),
                     st)
    ELSE IF uid \in ids
    THEN DedupResult("IntraCycle", ids, sh, st)
    ELSE IF uid \in Range(sh)
    THEN DedupResult("Exact", ids \cup {uid}, sh,
                     IF norm # <<>> /\ norm \notin Range(st)
                     THEN DequeAppend(st, norm, MAX_SEEN_TITLES) ELSE st)
    ELSE DedupResult("New", ids \cup {uid},
                     DequeAppend(sh, uid, MAX_SEEN_HEADLINES),
                     IF norm # <<>> THEN DequeAppend(st, norm, MAX_SEEN_TITLES) ELSE st)

\* Faulty variant: the fuzzy step appends the id without asking whether the
\* window holds it.
check_and_record_fuzzy_appends(uid, norm, ids, sh, st) ==
    IF uid \in ids
    THEN DedupResult("IntraCycle", ids, sh, st)
    ELSE IF FuzzyMatch(norm, st)
    THEN DedupResult("Fuzzy", ids \cup {uid}, DequeAppend(sh, uid, MAX_SEEN_HEADLINES), st)
    ELSE IF uid \in Range(sh)
    THEN DedupResult("Exact", ids \cup {uid}, sh,
                     IF norm # <<>> /\ norm \notin Range(st)
                     THEN DequeAppend(st, norm, MAX_SEEN_TITLES) ELSE st)
    ELSE DedupResult("New", ids \cup {uid},
                     DequeAppend(sh, uid, MAX_SEEN_HEADLINES),
                     IF norm # <<>> THEN DequeAppend(st, norm, MAX_SEEN_TITLES) ELSE st)

\* Faulty variant: a new headline is left out of the two windows (it would
\* be recorded only once its pipeline had succeeded).
check_and_record_new_unrecorded(uid, norm, ids, sh, st) ==
    IF uid \in ids
    THEN DedupResult("IntraCycle", ids, sh, st)
    ELSE IF FuzzyMatch(norm, st)
    THEN DedupResult("Fuzzy", ids \cup {uid},
                     IF uid \in Range(sh) THEN sh ELSE DequeAppend(sh, uid, MAX_SEEN_HEADLINES),
                     st)
    ELSE IF uid \in Range(sh)
    THEN DedupResult("Exact", ids \cup {uid}, sh,
                     IF norm # <<>> /\ norm \notin Range(st)
                     THEN DequeAppend(st, norm, MAX_SEEN_TITLES) ELSE st)
    ELSE DedupResult("New", ids \cup {uid}, sh, st)

\* The outcome for one headline and the three collections afterwards.
check_and_record(uid, norm, ids, sh, st) ==
    IF uid \in ids
    THEN DedupResult("IntraCycle", ids, sh, st)
    ELSE IF FuzzyMatch(norm, st)
    THEN DedupResult("Fuzzy", ids \cup {uid},
                     IF uid \in Range(sh) THEN sh ELSE DequeAppend(sh, uid, MAX_SEEN_HEADLINES),
                     st)
    ELSE IF uid \in Range(sh)
    THEN DedupResult("Exact", ids \cup {uid}, sh,
                     IF norm # <<>> /\ norm \notin Range(st)
                     THEN DequeAppend(st, norm, MAX_SEEN_TITLES) ELSE st)
    ELSE DedupResult("New", ids \cup {uid},
                     DequeAppend(sh, uid, MAX_SEEN_HEADLINES),
                     IF norm # <<>> THEN DequeAppend(st, norm, MAX_SEEN_TITLES) ELSE st)

\* Faulty variant: the `continue` of the exact-ID step is missing.
SkipsHeadline_not_exact(o) == o \in {"IntraCycle", "Fuzzy"}

\* The three `continue` statements: every duplicate outcome ends the
\* processing of the headline.
SkipsHeadline(o) == o \in {"IntraCycle", "Fuzzy", "Exact"}

\* The user keyword check: any keyword in title.lower().
KeywordBoost(t) == \E keyword \in USER_KEYWORDS : Contains(Lower(t), keyword)

(***************************************************************************)
(* The bot's events and task loops                                         *)
(***************************************************************************)
\* Faulty variant: on_ready starts the loops without asking is_running().
is_running_never(launched) == FALSE

\* Loop.is_running()
is_running(launched) == launched > 0

\* The loop of tasks.loop awaits the body before it sleeps and iterates:
\* a loop starts an iteration only when it is not inside one.
LoopMayIterate == check_news_launched > in_cycle

ResetHistory ==
    /\ outcome' = "None"
    /\ classify_calls' = 0
    /\ translate_calls' = 0
    /\ deepl_calls' = 0
    /\ deepl_answer' = "none"
    /\ publishes' = <<>>
    /\ answers' = <<>>

ResetLocals ==
    /\ boost_by_keyword' = FALSE
    /\ evaluation_result' = NoEvaluation
    /\ category' = <<>>
    /\ greek_translation' = <<>>
    /\ embed' = NoEmbed

\* bot.close(), and the end of bot.run: the event loop cancels the tasks
\* where they are suspended, and their frames (the locals of the body) go.
CloseBot ==
    /\ bot_closed' = TRUE
    /\ heartbeat_launched' = 0
    /\ heartbeat_failed' = FALSE
    /\ check_news_launched' = 0
    /\ in_cycle' = 0
    /\ pc' = IF in_cycle > 0 THEN "cancelled" ELSE pc
    /\ all_new_headlines' = NoHeadlines
    /\ scraped' = NoScraped
    /\ cycle_failed' = FALSE
    /\ src_idx' = 1
    /\ pos' = 1
    /\ cycle_processed_ids' = {}
    /\ processed_count' = 0
    /\ posted_count' = 0
    /\ ResetLocals
    /\ ResetHistory
    /\ UNCHANGED <<windows, essentials, deepl_translator, call, cycles_started, recorded_new, appended_ids>>

\* on_ready: found is whether bot.get_channel returned the channel.
OnReady ==
    /\ ConfigLoads(DISCORD_BOT_TOKEN, DISCORD_CHANNEL_ID)
    /\ ~bot_closed
    /\ pc \in AwaitPcs
    /\ \E found \in BOOLEAN :
          IF found
          THEN /\ heartbeat_launched' =
                     IF is_running(heartbeat_launched) THEN heartbeat_launched
                     ELSE heartbeat_launched + 1
               /\ check_news_launched' =
                     IF is_running(check_news_launched) THEN check_news_launched
                     ELSE check_news_launched + 1
               /\ UNCHANGED <<windows, essentials, deepl_translator, call, bot_closed, in_cycle,
                              heartbeat_failed, cycles_started, recorded_new, appended_ids,
                              cycle, locals, history>>
          ELSE CloseBot

\* The process is shut down: bot.run returns and the tasks are cancelled.
Shutdown ==
    /\ ConfigLoads(DISCORD_BOT_TOKEN, DISCORD_CHANNEL_ID)
    /\ ~bot_closed
    /\ pc \in AwaitPcs
    /\ CloseBot

\* What channel.send of the heartbeat ends with.
HeartbeatAnswers == {"ok", "ConnectionClosed", "Exception"}

\* Faulty variant: the exception leaves the body and tasks.loop stops the
\* loop.
AfterHeartbeatError_uncaught(launched) == launched - 1

\* The running heartbeat loops after channel.send raised: both handlers of
\* the body catch and log, the body returns and the loop goes on.
AfterHeartbeatError(launched) == launched

\* The body of heartbeat_task: one message to the channel; it runs while
\* the body of check_news_task, if there is one, is suspended at an await.
heartbeat_task(answer) ==
    /\ ~bot_closed
    /\ is_running(heartbeat_launched)
    /\ pc \in AwaitPcs
    /\ heartbeat_launched' =
          IF answer = "ok" THEN heartbeat_launched
          ELSE AfterHeartbeatError(heartbeat_launched)
    /\ UNCHANGED <<windows, essentials, deepl_translator, call, bot_closed,
                   check_news_launched, in_cycle, cycles_started, recorded_new,
                   appended_ids, cycle, locals, history>>

\* An iteration of the heartbeat, whatever the sink answers.
Heartbeat ==
    /\ \E answer \in HeartbeatAnswers : heartbeat_task(answer)
    /\ UNCHANGED heartbeat_failed

\* The same iteration, with the answer of the sink kept in the history.
HeartbeatLogged ==
    \E answer \in HeartbeatAnswers :
       /\ heartbeat_task(answer)
       /\ heartbeat_failed' = (answer # "ok")

(***************************************************************************)
(* check_news_task                                                         *)
(***************************************************************************)
\* The first source at or after position k whose list is not empty; 0 when
\* there is none (sources with no headlines are skipped by `continue`).
NextSource(results, k) ==
    IF \E j \in k..Len(SourceOrder) : results[SourceOrder[j]] # <<>>
    THEN CHOOSE j \in k..Len(SourceOrder) :
            /\ results[SourceOrder[j]] # <<>>
            /\ \A i \in k..(j - 1) : results[SourceOrder[i]] = <<>>
    ELSE 0

\* Faulty variant: the exception leaves the body and tasks.loop stops the
\* loop.
AfterCycleError_uncaught(launched) == launched - 1

\* The running loops after an exception in the body: the two handlers at
\* the cycle level catch it and the body returns, so the loop goes on.
AfterCycleError(launched) == launched

\* The body returns, with `launched` loops of the task left running.
EndCycleWith(launched) ==
    /\ pc' = "idle"
    /\ in_cycle' = in_cycle - 1
    /\ all_new_headlines' = NoHeadlines
    /\ src_idx' = 1
    /\ pos' = 1
    /\ cycle_processed_ids' = {}
    /\ processed_count' = 0
    /\ posted_count' = 0
    /\ ResetLocals
    /\ ResetHistory
    /\ check_news_launched' = launched
    /\ UNCHANGED <<windows, essentials, deepl_translator, call, bot_closed, heartbeat_launched,
                   heartbeat_failed,
                   cycles_started, recorded_new, appended_ids>>

\* The body returns after the end-of-cycle logging.
EndCycle == EndCycleWith(check_news_launched)

\* The body returns from one of the two handlers at the cycle level.
FailCycle ==
    /\ EndCycleWith(AfterCycleError(check_news_launched))
    /\ cycle_failed' = TRUE
    /\ UNCHANGED scraped

\* The loop over the sources moves to the first non-empty source at or
\* after position k, or the body ends.
EnterSource(results, k) ==
    IF NextSource(results, k) = 0
    THEN EndCycle
    ELSE /\ pc' = "headline"
         /\ all_new_headlines' = results
         /\ src_idx' = NextSource(results, k)
         /\ pos' = 1
         /\ ResetLocals
         /\ ResetHistory
         /\ UNCHANGED <<windows, tasks, cycle_processed_ids, processed_count, posted_count>>

\* An iteration of the loop starts: the body runs up to the await of
\* scraper.scrape_all.
Tick ==
    /\ ~bot_closed
    /\ LoopMayIterate
    /\ cycles_started < MaxCycles
    /\ cycles_started' = cycles_started + 1
    /\ pc \in AwaitPcs
    /\ pc' = "scrape"
    /\ in_cycle' = in_cycle + 1
    /\ all_new_headlines' = NoHeadlines
    /\ scraped' = NoScraped
    /\ cycle_failed' = FALSE
    /\ src_idx' = 1
    /\ pos' = 1
    /\ cycle_processed_ids' = {}
    /\ processed_count' = 0
    /\ posted_count' = 0
    /\ ResetLocals
    /\ ResetHistory
    /\ UNCHANGED <<windows, essentials, deepl_translator, call, bot_closed, heartbeat_launched,
                   heartbeat_failed,
                   check_news_launched, recorded_new, appended_ids>>

\* scrape_all returns its dict.
ScrapeReturns ==
    /\ pc = "scrape"
    /\ \E o \in ScrapeOutcomes :
          /\ scraped' = o
          /\ UNCHANGED cycle_failed
          /\ EnterSource(scrape_all(o), 1)

\* scrape_all raises: one of the handlers at the cycle level logs it.
ScrapeRaises ==
    /\ pc = "scrape"
    /\ FailCycle

\* One headline of the batch: the three dedup steps and, for a new
\* headline, the keyword check and the call of the classifier.
ProcessHeadline ==
    /\ pc = "headline"
    /\ LET unique_id == UniqueId(source, url)
           normalized_title_current == normalize_title(title)
           d == check_and_record(unique_id, normalized_title_current,
                                 cycle_processed_ids, seen_headlines,
                                 seen_normalized_titles)
       IN  /\ processed_count' = processed_count + 1
           /\ cycle_processed_ids' = d.ids
           /\ seen_headlines' = d.sh
           /\ seen_normalized_titles' = d.st
           /\ outcome' = d.outcome
           /\ recorded_new' = IF d.outcome = "New"
                               THEN recorded_new \cup {<<unique_id, title>>}
                               ELSE recorded_new
           /\ appended_ids' = IF d.outcome = "New"
                                  \/ (d.outcome = "Fuzzy" /\ unique_id \notin Range(seen_headlines))
                               THEN LastAppended(Append(appended_ids, unique_id))
                               ELSE appended_ids
           /\ IF SkipsHeadline(d.outcome)
              THEN /\ pc' = "next"
                   /\ UNCHANGED <<boost_by_keyword, classify_calls>>
              ELSE /\ boost_by_keyword' = KeywordBoost(title)
                   /\ classify_calls' = classify_calls + 1
                   \* an empty text is answered with None without a request
                   /\ pc' = IF title = <<>> THEN "sleep" ELSE "classify"
    /\ UNCHANGED <<settings, all_new_headlines, scraped, cycle_failed, src_idx, pos, posted_count,
                   evaluation_result, category, greek_translation, embed,
                   translate_calls, deepl_calls, deepl_answer, publishes, answers>>

\* Faulty variant: the category of the classifier is never overridden.
OverrideCategory_never(boost, ev) == ev.category

\* The category after the keyword override (line 183).
OverrideCategory(boost, ev) ==
    IF boost /\ ~ev.significant /\ (ev.category = <<>> \/ ev.category = CatUnknown)
    THEN CatGeneral ELSE ev.category

\* Faulty variant: every valid verdict goes on to translation.
ProceedsToTranslation_any_valid(boost, ev) == ev.valid

\* Faulty variant: a failed evaluation is taken for a significant headline.
ProceedsToTranslation_on_failure(boost, ev) == ~ev.valid \/ ev.significant \/ boost

\* Whether the headline goes on to translation.
ProceedsToTranslation(boost, ev) == ev.valid /\ (ev.significant \/ boost)

\* The classifier returns; a significant headline goes on to the call of
\* translate_en_to_el, which returns None at once when the translator is
\* missing.
ClassifyReturns ==
    /\ pc = "classify"
    /\ \E resp \in LLMResponses :
          LET ev == evaluate_significance_and_category(title, resp)
          IN  /\ evaluation_result' = ev
              /\ category' = IF ev.valid THEN OverrideCategory(boost_by_keyword, ev) ELSE category
              /\ IF ProceedsToTranslation(boost_by_keyword, ev)
                 THEN /\ translate_calls' = translate_calls + 1
                      /\ IF RequestsDeepL(deepl_translator, title)
                         THEN /\ deepl_calls' = deepl_calls + 1
                              /\ pc' = "translate"
                         ELSE /\ pc' = "sleep"
                              /\ UNCHANGED deepl_calls
                 ELSE /\ pc' = "sleep"
                      /\ UNCHANGED <<translate_calls, deepl_calls>>
    /\ UNCHANGED <<windows, tasks, all_new_headlines, scraped, cycle_failed, src_idx, pos, cycle_processed_ids,
                   processed_count, posted_count, boost_by_keyword, greek_translation,
                   embed, outcome, classify_calls, deepl_answer, publishes,
                   answers>>

SentimentLabel(compound) ==
    IF compound >= SENTIMENT_POSITIVE_THRESHOLD THEN "Positive"
    ELSE IF compound <= SENTIMENT_NEGATIVE_THRESHOLD THEN "Negative"
    ELSE "Neutral"

\* Faulty variant: the embed is titled with the translation.
MakeEmbed_translated_title(t, u, translation, cat, compound, why) ==
    [title |-> translation, url |-> u, description |-> translation, category |-> cat,
     sentiment |-> SentimentLabel(compound),
     reason |-> IF why # <<>> /\ Lower(why) \notin
                     {<<"s","i","g","n","i","f","i","c","a","n","t"," ","n","e","w","s">>,
                      <<"m","e","e","t","s"," ","c","r","i","t","e","r","i","a">>}
                THEN why ELSE <<>>,
     color |-> CategoryColor(cat)]

\* The embed of the alert; reason is what is added to the description.
MakeEmbed(t, u, translation, cat, compound, why) ==
    [title |-> t, url |-> u, description |-> translation, category |-> cat,
     sentiment |-> SentimentLabel(compound),
     reason |-> IF why # <<>> /\ Lower(why) \notin
                     {<<"s","i","g","n","i","f","i","c","a","n","t"," ","n","e","w","s">>,
                      <<"m","e","e","t","s"," ","c","r","i","t","e","r","i","a">>}
                THEN why ELSE <<>>,
     color |-> CategoryColor(cat)]

\* The translation returns: None leads to the short sleep; otherwise the
\* alert is built and handed to channel.send, unless building it raises,
\* which only a handler at the cycle level catches.
TranslateReturns ==
    /\ pc = "translate"
    /\ \E kind \in DeepLKinds :
          LET translation == translate_en_to_el(deepl_translator, title, kind)
          IN  IF translation = <<>>
              THEN /\ greek_translation' = <<>>
                   /\ deepl_answer' = kind
                   /\ pc' = "sleep"
                   /\ UNCHANGED <<windows, tasks, all_new_headlines, scraped, cycle_failed, src_idx, pos,
                                  cycle_processed_ids, processed_count, posted_count,
                                  boost_by_keyword, evaluation_result, category, embed,
                                  outcome, classify_calls, translate_calls, deepl_calls,
                                  publishes, answers>>
              ELSE \E a \in AssemblyOutcomes :
                      IF a.raised
                      THEN FailCycle
                      ELSE /\ greek_translation' = translation
                           /\ deepl_answer' = kind
                           /\ embed' = MakeEmbed(title, url, translation, category,
                                                 a.compound, evaluation_result.reason)
                           /\ publishes' = Append(publishes, embed')
                           /\ pc' = "send"
                           /\ UNCHANGED <<windows, tasks, all_new_headlines, scraped, cycle_failed, src_idx, pos,
                                          cycle_processed_ids, processed_count, posted_count,
                                          boost_by_keyword, evaluation_result, category,
                                          outcome, classify_calls, translate_calls,
                                          deepl_calls, answers>>

\* Where the body goes after the answer to the first channel.send: the
\* throttle sleep, the `break`, the sleep of retry_after, or the next
\* headline.
AfterSend(answer) ==
    CASE answer = "ok"          -> "sleep"
      [] answer = "Forbidden"   -> "break"
      [] answer = "RateLimited" -> "ratelimit_sleep"
      [] OTHER                  -> "next"

\* Faulty variant: a retry that is rate limited again is retried again.
AfterRetry_retries_again(answer) ==
    CASE answer = "ok"          -> "sleep"
      [] answer = "RateLimited" -> "ratelimit_sleep"
      [] OTHER                  -> "next"

\* Where the body goes after the answer to the retry: `except Exception`
\* passes over every failure.
AfterRetry(answer) == IF answer = "ok" THEN "sleep" ELSE "next"

\* The sink answers the first channel.send.
SendReturns ==
    /\ pc = "send"
    /\ \E answer \in SendAnswers :
          /\ answers' = Append(answers, answer)
          /\ posted_count' = IF answer = "ok" THEN posted_count + 1 ELSE posted_count
          /\ pc' = AfterSend(answer)
    /\ UNCHANGED <<windows, tasks, all_new_headlines, scraped, cycle_failed, src_idx, pos, cycle_processed_ids,
                   processed_count, locals, outcome, classify_calls, translate_calls,
                   deepl_calls, deepl_answer, publishes>>

\* The sleep of retry_after ends and the same embed is sent once more.
RateLimitWake ==
    /\ pc = "ratelimit_sleep"
    /\ publishes' = Append(publishes, embed)
    /\ pc' = "resend"
    /\ UNCHANGED <<windows, tasks, all_new_headlines, scraped, cycle_failed, src_idx, pos, cycle_processed_ids,
                   processed_count, posted_count, locals, outcome, classify_calls,
                   translate_calls, deepl_calls, deepl_answer, answers>>

\* The sink answers the retry; every exception is logged and passed over.
ResendReturns ==
    /\ pc = "resend"
    /\ \E answer \in SendAnswers :
          /\ answers' = Append(answers, answer)
          /\ posted_count' = IF answer = "ok" THEN posted_count + 1 ELSE posted_count
          /\ pc' = AfterRetry(answer)
    /\ UNCHANGED <<windows, tasks, all_new_headlines, scraped, cycle_failed, src_idx, pos, cycle_processed_ids,
                   processed_count, locals, outcome, classify_calls, translate_calls,
                   deepl_calls, deepl_answer, publishes>>

\* An asyncio.sleep at the end of a headline's processing ends.
SleepWake ==
    /\ pc = "sleep"
    /\ pc' = "next"
    /\ UNCHANGED <<windows, tasks, all_new_headlines, scraped, cycle_failed, src_idx, pos, cycle_processed_ids,
                   processed_count, posted_count, locals, history>>

\* The inner for loop takes the next headline, or ends and the body sleeps
\* one second before the next source.
NextHeadline ==
    /\ pc = "next"
    /\ IF pos < Len(Batch)
       THEN /\ pos' = pos + 1
            /\ pc' = "headline"
            /\ ResetLocals
            /\ ResetHistory
       ELSE /\ pc' = "source_sleep"
            /\ ResetLocals
            /\ ResetHistory
            /\ UNCHANGED pos
    /\ UNCHANGED <<windows, tasks, all_new_headlines, scraped, cycle_failed, src_idx, cycle_processed_ids,
                   processed_count, posted_count>>

\* The `break` after a Forbidden answer: the rest of the source's batch is
\* left out and the body sleeps one second before the next source.
BreakSource ==
    /\ pc = "break"
    /\ pc' = "source_sleep"
    /\ ResetLocals
    /\ ResetHistory
    /\ UNCHANGED <<windows, tasks, all_new_headlines, scraped, cycle_failed, src_idx, pos, cycle_processed_ids,
                   processed_count, posted_count>>

\* The sleep between two sources ends: the next non-empty source, or the
\* end of the cycle.
SourceSleepWake ==
    /\ pc = "source_sleep"
    /\ EnterSource(all_new_headlines, src_idx + 1)
    /\ UNCHANGED <<scraped, cycle_failed>>

Next ==
    \/ OnReady
    \/ Shutdown
    \/ Heartbeat
    \/ Tick
    \/ ScrapeReturns
    \/ ScrapeRaises
    \/ ProcessHeadline
    \/ ClassifyReturns
    \/ TranslateReturns
    \/ SendReturns
    \/ RateLimitWake
    \/ ResendReturns
    \/ SleepWake
    \/ NextHeadline
    \/ BreakSource
    \/ SourceSleepWake

Spec == Init /\ [][Next]_vars

\* The bot with the answers to the heartbeat observed: HbSpec is Spec with
\* every iteration of the heartbeat leaving its answer in heartbeat_failed.
HbNext ==
    \/ OnReady
    \/ Shutdown
    \/ HeartbeatLogged
    \/ Tick
    \/ ScrapeReturns
    \/ ScrapeRaises
    \/ ProcessHeadline
    \/ ClassifyReturns
    \/ TranslateReturns
    \/ SendReturns
    \/ RateLimitWake
    \/ ResendReturns
    \/ SleepWake
    \/ NextHeadline
    \/ BreakSource
    \/ SourceSleepWake

HbSpec == Init /\ [][HbNext]_vars

(***************************************************************************)
(* Single applications of the functions                                    *)
(*                                                                         *)
(* FnSpec starts with one function, its arguments drawn from the sets      *)
(* below, and applies it; the tasks of the bot do not run.                 *)
(***************************************************************************)
\* Everything but the application being examined.
program == <<windows, essentials, deepl_translator, bot_closed, heartbeat_launched, heartbeat_failed,
             check_news_launched,
             in_cycle, cycles_started, recorded_new, appended_ids, cycle, locals, history>>

ClassifierTexts == {<<>>, TitleOil}

SignificantValues == {JBool(TRUE), JBool(FALSE), JStr(<<"y","e","s">>), JNum, JMissing}

CategoryValues ==
    {JStr(CatEconomy), JStr(<<" ","u","n","k","n","o","w","n">>),
     JStr(<<"S","T","O","C","K","S"," ">>), JStr(<<"s","t","o","c","k">>),
     JStr(<<>>), JNum, JMissing}

ReasonValues == {JStr(<<" ","x">>), JMissing, JNum}

\* What client.chat may come back with.
ClassifierResponses ==
    {LLMResponse(k, "invalid", JMissing, JMissing, JMissing) :
        k \in {"response_error", "timeout", "exception"}}
    \cup {LLMResponse("ok", j, JMissing, JMissing, JMissing) : j \in {"invalid", "not_object"}}
    \cup {LLMResponse("ok", "object", sg, c, r) :
              sg \in SignificantValues, c \in CategoryValues, r \in ReasonValues}

ClassifyCalls ==
    {[op |-> "classify", input |-> [text |-> t, resp |-> r], done |-> FALSE,
      output |-> NoEvaluation] : t \in ClassifierTexts, r \in ClassifierResponses}

\* await llm_handler.evaluate_significance_and_category(text)
ApplyClassify ==
    /\ call.op = "classify"
    /\ ~call.done
    /\ call' = [call EXCEPT !.done = TRUE,
                            !.output = evaluate_significance_and_category(call.input.text,
                                                                          call.input.resp)]
    /\ UNCHANGED program

TextFedTwice == <<"f","e","d"," ","F","e","d">>

TextEurUsd == <<"E","U","R","/","U","S","D"," ","u","p"," ","2","%">>

TextEurUsdMixed == <<"E","u","r","/","U","s","d"," ","u","p"," ","2","%">>

TextFeds == <<"F","e","d","s">>

TextGdpFed == <<"g","d","p",","," ","F","e","d">>

\* A text that holds a placeholder token of its own.
TextToken == Placeholder(1) \o <<" ","u","p">>

TranslateTexts ==
    {<<>>, TitleFed, TitleOil, TextFedTwice, TextEurUsd, TextEurUsdMixed, TextFeds,
     TextGdpFed, TextToken}

\* What deepl_translator.translate_text may do, a translation that rewrites
\* the placeholder tokens included.
TranslatorAnswers == DeepLKinds \cup {"lower_all"}

NoTranslation == [text |-> <<>>, requested |-> FALSE]

TranslateCalls ==
    {[op |-> "translate", input |-> [text |-> t, kind |-> k], done |-> FALSE,
      output |-> NoTranslation] : t \in TranslateTexts, k \in TranslatorAnswers}

\* await llm_handler.translate_en_to_el(text)
ApplyTranslate ==
    /\ call.op = "translate"
    /\ ~call.done
    /\ call' = [call EXCEPT
                   !.done = TRUE,
                   !.output = [text |-> translate_en_to_el(deepl_translator, call.input.text,
                                                           call.input.kind),
                               requested |-> RequestsDeepL(deepl_translator,
                                                           call.input.text)]]
    /\ UNCHANGED program

\* The longest string normalize_title is applied to.
MaxTitleLen == 3

\* An upper-case and a lower-case letter, a separator, a punctuation
\* character, the underscore and a letter outside ASCII.
TitleChars == {"A", "b", " ", "!", "_", "É"}

NormalizeCalls ==
    {[op |-> "normalize", input |-> t, done |-> FALSE, output |-> <<>>] :
        t \in SeqsUpTo(TitleChars, MaxTitleLen)}

\* normalize_title(title)
ApplyNormalize ==
    /\ call.op = "normalize"
    /\ ~call.done
    /\ call' = [call EXCEPT !.done = TRUE, !.output = normalize_title(call.input)]
    /\ UNCHANGED program

\* The longest title held in the window when the fuzzy step is applied.
MaxHeldLen == 2

\* Not a letter, a digit or whitespace.
IsPunctuation(c) == ~IsSpace(c) /\ (c = "_" \/ ~IsWord(c))

\* t with the character c put in after its first k characters.
InsertAt(t, k, c) == SubSeq(t, 1, k) \o <<c>> \o SubSeq(t, k + 1, Len(t))

\* Titles that differ from t by punctuation characters and letter case
\* only: t with its case changed, with its punctuation taken out, or with a
\* punctuation character put in.
PunctuationCaseVariants(t) ==
    LET bare == SelectSeq(t, LAMBDA c : ~IsPunctuation(c))
        marked == {InsertAt(t, k, c) : k \in 0..Len(t), c \in {"!", "_"}}
    IN  {Upper(t), Lower(t), bare, Upper(bare)} \cup marked \cup {Upper(m) : m \in marked}

\* Values of config.FUZZY_MATCH_THRESHOLD: the lowest, the configured and
\* the highest.
Thresholds == {1, FUZZY_MATCH_THRESHOLD, 100}

\* A held title and a title a scraper may list, the two differing by
\* punctuation and case only, and a threshold.
FuzzyCalls ==
    UNION {{[op |-> "fuzzy", input |-> [held |-> h, title |-> t, threshold |-> th],
             done |-> FALSE, output |-> [similarity |-> 0, duplicate |-> FALSE]] :
               t \in PunctuationCaseVariants(h) \ {<<>>}, th \in Thresholds} :
           h \in SeqsUpTo(TitleChars, MaxHeldLen) \ {<<>>}}

\* The fuzzy step of check_news_task for a title, with the title `held`
\* recorded as new before it.
ApplyFuzzy ==
    /\ call.op = "fuzzy"
    /\ ~call.done
    /\ LET recorded == check_and_record(UniqueId("A", "u1"), normalize_title(call.input.held),
                                        {}, <<>>, <<>>)
           normalized_title_current == normalize_title(call.input.title)
       IN  call' = [call EXCEPT
                      !.done = TRUE,
                      !.output = [similarity |-> token_set_ratio(normalized_title_current,
                                                                 normalize_title(call.input.held)),
                                  duplicate |-> FuzzyMatchAt(normalized_title_current,
                                                             recorded.st,
                                                             call.input.threshold)]]
    /\ UNCHANGED program

FnInit ==
    /\ Constructed
    /\ ConfigLoads(DISCORD_BOT_TOKEN, DISCORD_CHANNEL_ID)
    /\ \/ call \in ClassifyCalls
       \/ call \in TranslateCalls
       \/ call \in NormalizeCalls
       \/ call \in FuzzyCalls

FnNext ==
    \/ ApplyClassify
    \/ ApplyTranslate
    \/ ApplyNormalize
    \/ ApplyFuzzy

FnSpec == FnInit /\ [][FnNext]_vars

(***************************************************************************)
(* Properties of the cycle                                                 *)
(***************************************************************************)
\* The id of the headline at hand.
(***************************************************************************)
(* The dedup steps alone                                                   *)
(*                                                                         *)
(* DedupSpec runs steps 1 to 3 and the NEW branch of check_news_task on    *)
(* headlines of one source, iteration after iteration, with a title among  *)
(* them that has no ASCII letter; what follows the dedup of a headline     *)
(* (classifier, translator, sink) writes none of the three collections.    *)
(***************************************************************************)
TitleAccented == <<"É">>

\* The (source, url, title) a scrape may hand to the loop over headlines.
DedupHeadlines ==
    {[source |-> "A", url |-> u, title |-> t] :
        u \in {"u1", "u2"}, t \in {TitleFed, TitleOil, TitleAccented}}

DedupInit ==
    /\ Init
    /\ ConfigLoads(DISCORD_BOT_TOKEN, DISCORD_CHANNEL_ID)

\* One headline goes through the dedup steps; call keeps the headline and
\* its outcome.
DedupHeadline ==
    \E h \in DedupHeadlines :
       LET normalized_title_current == normalize_title(h.title)
           d == check_and_record(UniqueId(h.source, h.url), normalized_title_current,
                                 cycle_processed_ids, seen_headlines,
                                 seen_normalized_titles)
       IN  /\ cycle_processed_ids' = d.ids
           /\ seen_headlines' = d.sh
           /\ seen_normalized_titles' = d.st
           /\ outcome' = d.outcome
           /\ call' = [op |-> "check_and_record", input |-> h, done |-> TRUE,
                       output |-> d.outcome]
           /\ UNCHANGED <<essentials, deepl_translator, bot_closed, heartbeat_launched,
                          heartbeat_failed, check_news_launched, in_cycle, cycles_started,
                          recorded_new, appended_ids, pc, all_new_headlines, scraped,
                          cycle_failed, src_idx, pos, processed_count, posted_count,
                          locals, classify_calls, translate_calls, deepl_calls,
                          deepl_answer, publishes, answers>>

\* The next iteration of the task begins: cycle_processed_ids = set().
DedupNextCycle ==
    /\ cycle_processed_ids # {}
    /\ cycle_processed_ids' = {}
    /\ call' = NoCall
    /\ outcome' = "None"
    /\ UNCHANGED <<windows, essentials, deepl_translator, bot_closed, heartbeat_launched,
                   heartbeat_failed, check_news_launched, in_cycle, cycles_started,
                   recorded_new, appended_ids, pc, all_new_headlines, scraped,
                   cycle_failed, src_idx, pos, processed_count, posted_count,
                   locals, classify_calls, translate_calls, deepl_calls,
                   deepl_answer, publishes, answers>>

DedupNext ==
    \/ DedupHeadline
    \/ DedupNextCycle

DedupSpec == DedupInit /\ [][DedupNext]_vars

unique_id == UniqueId(source, url)

\* The raw title holds a configured keyword, whatever the case of its letters.
TitleHasKeyword ==
    \E k \in USER_KEYWORDS :
       \E i \in 1..Len(title) :
          /\ i + Len(k) - 1 <= Len(title)
          /\ \A j \in 1..Len(k) : LowerChar(title[i + j - 1]) = k[j]

\* The classifier gave a valid verdict, significant, of category Economy,
\* the translation came back and the sink accepted the first send.
EconomyAccepted ==
    /\ pc \in HeadlinePcs
    /\ outcome = "New"
    /\ evaluation_result.valid
    /\ evaluation_result.significant
    /\ evaluation_result.category = CatEconomy
    /\ greek_translation # <<>>
    /\ answers # <<>>
    /\ answers[1] = "ok"

\* C1: a New headline with a valid verdict (significant, Economy), a
\* successful translation and a sink that accepts the message is published
\* by exactly one call, which carries the category Economy, the original
\* title and the original url.
C1_OnePublishEconomy ==
    EconomyAccepted =>
        /\ Len(publishes) = 1
        /\ publishes[1].category = CatEconomy
        /\ publishes[1].title = title
        /\ publishes[1].url = url
        /\ publishes[1].description = greek_translation

C1_Witness ==
    /\ EconomyAccepted
    /\ pc = "next"
    /\ title = TitleFed
    /\ greek_translation # title
    /\ Len(publishes) = 1

\* The headline about to be processed was recorded as New before, and not
\* in this cycle.
Reprocessed ==
    /\ pc = "headline"
    /\ <<unique_id, title>> \in recorded_new
    /\ unique_id \notin cycle_processed_ids

C3_DuplicateNoWork ==
    outcome \in {"IntraCycle", "Fuzzy", "Exact"} =>
        /\ pc = "next"
        /\ classify_calls = 0
        /\ translate_calls = 0
        /\ deepl_calls = 0
        /\ publishes = <<>>
        /\ answers = <<>>

C3_Witness ==
    /\ pc = "next"
    /\ outcome = "Exact"
    /\ classify_calls = 0
    /\ publishes = <<>>

\* C4: within a cycle, a headline whose id is in the set of the ids of the
\* cycle, and only such a headline, is an intra-cycle duplicate, whatever
\* the two windows hold, and the step leaves the windows as they are; a
\* headline that nothing in the set and the windows matches is New.
C4_IntraCycleFirst ==
    [][pc = "headline" =>
          /\ unique_id \in cycle_processed_ids =>
                /\ outcome' = "IntraCycle"
                /\ pc' = "next"
                /\ UNCHANGED <<windows, cycle_processed_ids>>
          /\ outcome' = "IntraCycle" => unique_id \in cycle_processed_ids
          /\ ( /\ unique_id \notin cycle_processed_ids
               /\ unique_id \notin Range(seen_headlines)
               /\ ~FuzzyMatch(normalize_title(title), seen_normalized_titles) ) =>
                /\ outcome' = "New"
                /\ unique_id \in cycle_processed_ids'
                /\ unique_id \in Range(seen_headlines')]_vars

C4_Witness ==
    /\ pc = "next"
    /\ outcome = "IntraCycle"
    /\ pos = 2
    /\ Batch[1] = Batch[2]
    /\ <<unique_id, title>> \in recorded_new
    /\ cycles_started = 1

\* C5: a publish is made only for a headline whose outcome was New, whose
\* final significance (the verdict of the classifier or a keyword in the
\* title) is true and whose translation succeeded.
C5_PublishOnlySignificant ==
    publishes # <<>> =>
        /\ pc \in HeadlinePcs
        /\ outcome = "New"
        /\ evaluation_result.valid
        /\ evaluation_result.significant \/ TitleHasKeyword
        /\ translate_calls = 1
        /\ greek_translation # <<>>

C5_Witness ==
    /\ pc = "next"
    /\ Len(publishes) = 2
    /\ outcome = "New"
    /\ evaluation_result.significant
    /\ ~TitleHasKeyword
    /\ greek_translation # <<>>

\* A New headline with a keyword in its title, for which the classifier gave
\* a valid verdict that is not significant.
BoostedInsignificant ==
    /\ pc \in HeadlinePcs
    /\ outcome = "New"
    /\ TitleHasKeyword
    /\ evaluation_result.valid
    /\ ~evaluation_result.significant

\* C6: a New headline with a keyword in its raw title and a valid verdict
\* that is not significant is still translated and, once its translation has
\* succeeded, published: with the category General when the category of the
\* classifier was Unknown, and with the category of the classifier otherwise.
C6_KeywordOverridesVerdict ==
    BoostedInsignificant =>
        /\ translate_calls = 1
        /\ greek_translation # <<>> =>
              /\ publishes # <<>>
              /\ \A i \in 1..Len(publishes) :
                    publishes[i].category =
                        IF evaluation_result.category = CatUnknown
                        THEN CatGeneral ELSE evaluation_result.category

C6_Witness ==
    /\ BoostedInsignificant
    /\ pc = "next"
    /\ evaluation_result.category = CatUnknown
    /\ Len(publishes) = 1
    /\ publishes[1].category = CatGeneral

\* The evaluation of the New headline at hand has come back as a failure.
EvaluationFailed ==
    /\ pc \in {"sleep", "next"}
    /\ outcome = "New"
    /\ classify_calls = 1
    /\ ~evaluation_result.valid

\* C7 (as stated): a New headline with a keyword in its raw title goes on to
\* translation even when the call of the classifier returns a failure.
C7_KeywordOverridesFailure ==
    (EvaluationFailed /\ TitleHasKeyword) => translate_calls = 1

\* The classifier returns a failure for a headline without a keyword.
ClassifierFails ==
    /\ pc = "classify"
    /\ pc' \in {"sleep", "translate"}
    /\ ~evaluation_result'.valid
    /\ ~TitleHasKeyword

\* C8: when the classifier returns a failure for a New headline without a
\* keyword, there is no call of the translator and no publish for it, the
\* classifier has been called once for it, and the cycle goes on, through
\* the short sleep, to the next headline.
C8_FailureIsNotSignificant ==
    /\ [][ClassifierFails =>
             /\ pc' = "sleep"
             /\ translate_calls' = 0
             /\ deepl_calls' = 0
             /\ publishes' = <<>>
             /\ UNCHANGED <<in_cycle, src_idx, pos, classify_calls>>]_vars
    /\ []((EvaluationFailed /\ ~TitleHasKeyword) =>
             /\ classify_calls = 1
             /\ translate_calls = 0
             /\ publishes = <<>>
             /\ in_cycle = 1)

C8_Witness ==
    /\ EvaluationFailed
    /\ ~TitleHasKeyword
    /\ pc = "next"
    /\ pos < Len(Batch)
    /\ translate_calls = 0
    /\ publishes = <<>>

\* C9: at most one iteration of check_news_task is executing at any time,
\* however often on_ready runs: the body is inside an iteration exactly
\* when one cycle is open, and one loop only has been started.
C9_OneCycleAtATime ==
    /\ in_cycle <= 1
    /\ check_news_launched <= 1
    /\ in_cycle = 1 <=> pc \notin {"idle", "cancelled"}

C9_Witness ==
    /\ in_cycle = 1
    /\ pc = "translate"
    /\ cycles_started = 2
    /\ ~bot_closed
    /\ is_running(check_news_launched)

\* C10 (as stated): the processing of the headlines of a source ends only
\* after the last headline of the batch, whatever was raised while one of
\* them was processed (the cancellation of the task apart).
C10_HeadlineFailureIsolated ==
    [][(pc \in HeadlinePcs /\ pc' \notin HeadlinePcs /\ pc' # "cancelled") =>
          /\ pc' = "source_sleep"
          /\ pos = Len(Batch)]_vars

\* The list the scraper task of source s handed to gather.
Returned(s) ==
    IF scraped[s].raised \/ ~scraped[s].fetched THEN <<>> ELSE scraped[s].headlines

\* C11: a source whose fetch failed or whose scraper raised contributes an
\* empty list, every other source's list is in the dict as its scraper
\* returned it, the dict has an entry for every source, and whenever some
\* source returned headlines the cycle goes on to process them, starting
\* with the first source whose list is not empty.
C11_ScrapeFailureIsolated ==
    /\ []((in_cycle = 1 /\ pc # "scrape") =>
             /\ DOMAIN all_new_headlines = Sources
             /\ \A s \in Sources : all_new_headlines[s] = Returned(s)
             /\ all_new_headlines[source] # <<>>)
    /\ [][(pc = "scrape" /\ \E s \in Sources : Returned(s)' # <<>>) =>
             /\ pc' = "headline"
             /\ Returned(source)' # <<>>
             /\ \A j \in 1..(src_idx' - 1) : Returned(SourceOrder[j])' = <<>>
             /\ Batch' = Reverse(Returned(source))']_vars

C11_Witness ==
    /\ pc = "next"
    /\ ~scraped["A"].fetched
    /\ source = "B"
    /\ pos = 2
    /\ Batch = Reverse(scraped["B"].headlines)
    /\ outcome = "New"
    /\ processed_count = 2

\* C12: in every reachable state the exact-ID window holds at most
\* MAX_SEEN_HEADLINES entries and the fuzzy-title window at most
\* MAX_SEEN_TITLES.
C12_WindowsBounded ==
    /\ Len(seen_headlines) <= MAX_SEEN_HEADLINES
    /\ Len(seen_normalized_titles) <= MAX_SEEN_TITLES

C12_Witness ==
    /\ Len(seen_headlines) = MAX_SEEN_HEADLINES
    /\ Len(seen_normalized_titles) = MAX_SEEN_TITLES
    /\ Len(appended_ids) = MAX_SEEN_HEADLINES + 1
    /\ \E r \in recorded_new :
          normalize_title(r[2]) # <<>>
          /\ normalize_title(r[2]) \notin Range(seen_normalized_titles)

\* The id appended MAX_SEEN_HEADLINES appends before the latest one is
\* carried by the headline about to be processed.
CarriesEvictedId ==
    /\ pc = "headline"
    /\ Len(appended_ids) = MAX_SEEN_HEADLINES + 1
    /\ unique_id = appended_ids[1]
    /\ unique_id \notin cycle_processed_ids

\* C13: eviction is FIFO: once MAX_SEEN_HEADLINES + 1 ids have been
\* appended, the window holds exactly the last MAX_SEEN_HEADLINES of them,
\* in order, the earliest is not in it, and a later headline that carries
\* the earliest id is not an exact-ID duplicate.
C13_EvictionIsFifo ==
    /\ [](/\ Len(appended_ids) <= MAX_SEEN_HEADLINES => seen_headlines = appended_ids
          /\ Len(appended_ids) = MAX_SEEN_HEADLINES + 1 =>
                /\ seen_headlines = Tail(appended_ids)
                /\ appended_ids[1] \notin Range(seen_headlines)
                /\ \A i, j \in 1..Len(appended_ids) :
                      i # j => appended_ids[i] # appended_ids[j])
    /\ [][CarriesEvictedId => outcome' \in {"New", "Fuzzy"}]_vars

C13_Witness ==
    /\ CarriesEvictedId
    /\ <<unique_id, title>> \in recorded_new
    /\ Len(seen_headlines) = MAX_SEEN_HEADLINES
    /\ unique_id \notin Range(seen_headlines)
    /\ ~FuzzyMatch(normalize_title(title), seen_normalized_titles)

\* The response the classifier rejects: no JSON object, or a `significant`
\* that is missing or no boolean, or a `category` that is missing or no
\* string.
Rejected(resp) ==
    \/ resp.kind = "ok" /\ resp.json # "object"
    \/ resp.kind = "ok" /\ resp.significant.t # "bool"
    \/ resp.kind = "ok" /\ resp.category.t # "str"

\* C14: the classifier returns None, and so no verdict and no category,
\* whenever the response is not valid JSON, or its `significant` is missing
\* or not a boolean, or its `category` is missing or not a string; a missing
\* category is not replaced by a default one.
C14_InvalidResponseIsFailure ==
    (call.op = "classify" /\ call.done /\ Rejected(call.input.resp)) =>
        /\ call.output = NoEvaluation
        /\ ~call.output.valid
        /\ call.output.category = <<>>

C14_Witness ==
    /\ call.op = "classify"
    /\ call.done
    /\ call.input.text # <<>>
    /\ call.input.resp.kind = "ok"
    /\ call.input.resp.json = "object"
    /\ call.input.resp.significant = JBool(TRUE)
    /\ call.input.resp.category = JMissing
    /\ call.input.resp.reason.t = "str"
    /\ call.output = NoEvaluation

\* The members of the closed set that the LLM's string names, up to case
\* and surrounding whitespace.
NamedCategories(raw) == {c \in CATEGORIES : Lower(Strip(raw)) = Lower(c)}

\* C15: the category of every verdict the classifier returns is a member of
\* CATEGORIES: the member the LLM's string names up to case and surrounding
\* whitespace, and General when it names none; the raw string is returned
\* only when it is that member.
C15_CategoryInClosedSet ==
    (call.op = "classify" /\ call.done /\ call.output.valid) =>
        LET raw == call.input.resp.category.s
        IN  /\ call.output.category \in CATEGORIES
            /\ \A c \in NamedCategories(raw) : call.output.category = c
            /\ NamedCategories(raw) = {} => call.output.category = CatGeneral
            /\ raw \notin CATEGORIES => call.output.category # raw

C15_Witness ==
    /\ call.op = "classify"
    /\ call.done
    /\ call.output.valid
    /\ call.input.resp.category.s = <<"S","T","O","C","K","S"," ">>
    /\ call.output.category = CatStocks

\* The indexes of the placeholder tokens looked for in a returned text.
PlaceholderIndexes == 0..9

\* text holds a token __PLACEHOLDER_n__, in whatever letter case.
HoldsPlaceholder(text) ==
    \E n \in PlaceholderIndexes : Contains(Lower(text), Lower(Placeholder(n)))

\* C16: a string returned by translate_en_to_el holds no placeholder token,
\* whatever the input text and whatever the translation API answered.
C16_NoPlaceholderReturned ==
    (call.op = "translate" /\ call.done /\ call.output.text # <<>>) =>
        ~HoldsPlaceholder(call.output.text)

\* The occurrences of protected terms in text: the matched substrings, with
\* the casing they have in text.
ProtectedOccurrences(text) ==
    {SubSeq(text, i, i + Len(NO_TRANSLATE_TERMS[n]) - 1) :
        <<n, i>> \in {<<m, j>> \in (1..Len(NO_TRANSLATE_TERMS)) \X (1..Len(text)) :
                        PatternMatchesAt(text, j, NO_TRANSLATE_TERMS[m])}}

TranslatorFailsCleanly ==
    /\ \A t \in TranslateTexts, k \in {"raise", "empty"} :
          translate_en_to_el(TRUE, t, k) = <<>>
    /\ \A k \in TranslatorAnswers :
          /\ translate_en_to_el(TRUE, <<>>, k) = <<>>
          /\ ~RequestsDeepL(TRUE, <<>>)

\* C18: when the translation API raises or answers with an empty or missing
\* result, translate_en_to_el returns None, never the text with its
\* placeholders; for the empty text it returns None without a request to the
\* API; and a headline whose translation is None is not published.
C18_TranslationFailureNoPublish ==
    /\ TranslatorFailsCleanly
    /\ deepl_answer \in {"raise", "empty"} =>
          /\ greek_translation = <<>>
          /\ publishes = <<>>
          /\ answers = <<>>
          /\ pc \in {"sleep", "next"}
    /\ (translate_calls = 1 /\ pc # "translate" /\ greek_translation = <<>>) =>
          publishes = <<>>

C18_Witness ==
    /\ deepl_answer = "empty"
    /\ evaluation_result.valid
    /\ evaluation_result.significant
    /\ translate_calls = 1
    /\ deepl_calls = 1
    /\ greek_translation = <<>>
    /\ publishes = <<>>
    /\ pc = "next"

\* C19: normalize_title returns a string for every string, the empty, the
\* whitespace-only and the punctuation-only ones included; applying it to
\* its own result changes nothing; an empty or whitespace-only title gives
\* the empty string.
C19_NormalizeIdempotent ==
    (call.op = "normalize" /\ call.done) =>
        /\ \A i \in 1..Len(call.output) : IsWord(call.output[i]) \/ call.output[i] = " "
        /\ normalize_title(call.output) = call.output
        /\ (\A i \in 1..Len(call.input) : IsSpace(call.input[i])) => call.output = <<>>

C19_Witness ==
    /\ call.op = "normalize"
    /\ call.done
    /\ call.input = <<"A", " ", "!">>
    /\ call.output = <<"a">>
    /\ normalize_title(call.output) = call.output

\* C20: a title that differs only by punctuation characters and letter case
\* from a title held in the fuzzy-title window scores 100 against it after
\* normalization and is a fuzzy-title duplicate at every threshold of
\* 1..100.
C20_PunctuationCaseIsFuzzy ==
    (call.op = "fuzzy" /\ call.done /\ normalize_title(call.input.held) # <<>>) =>
        /\ call.output.similarity = 100
        /\ call.output.duplicate

\* The headline about to be processed has a non-empty normalized title that
\* scores at or above the threshold against an entry of the fuzzy-title
\* window.
ScoresAgainstWindow ==
    /\ pc = "headline"
    /\ normalize_title(title) # <<>>
    /\ \E i \in 1..Len(seen_normalized_titles) :
          token_set_ratio(normalize_title(title), seen_normalized_titles[i])
              >= FUZZY_MATCH_THRESHOLD

\* w with x put at its right end, the oldest entry leaving a full window.
Pushed(w, x, maxlen) ==
    IF Len(w) < maxlen THEN Append(w, x) ELSE Append(Tail(w), x)

\* What the fuzzy-title step leaves: the outcome, the id in the exact-ID
\* window (appended when it was absent, the window unchanged when it was
\* there) and the fuzzy-title window as it was.
FuzzyDuplicateEffect ==
    /\ outcome' = "Fuzzy"
    /\ unique_id \in Range(seen_headlines')
    /\ unique_id \in Range(seen_headlines) => seen_headlines' = seen_headlines
    /\ unique_id \notin Range(seen_headlines) =>
          seen_headlines' = Pushed(seen_headlines, unique_id, MAX_SEEN_HEADLINES)
    /\ seen_normalized_titles' = seen_normalized_titles

\* C21 as stated: every headline whose non-empty normalized title scores at
\* or above the threshold against the fuzzy-title window is a fuzzy-title
\* duplicate, with its id recorded and the fuzzy-title window unchanged.
C21_FuzzyMatchIsFuzzy ==
    [][ScoresAgainstWindow => FuzzyDuplicateEffect]_vars

\* C21, amended: a headline whose id is not in the current cycle's set and
\* whose non-empty normalized title scores at or above the threshold against
\* the fuzzy-title window is a fuzzy-title duplicate, also when its id is in
\* the exact-ID window; its id is in the exact-ID window afterwards, appended
\* once if it was absent, and the fuzzy-title window is unchanged. A
\* headline whose id is in the current cycle's set is an intra-cycle
\* duplicate and changes neither window.
C21_FuzzyAfterIntraCycle ==
    /\ [][(ScoresAgainstWindow /\ unique_id \notin cycle_processed_ids)
             => FuzzyDuplicateEffect]_vars
    /\ [][(ScoresAgainstWindow /\ unique_id \in cycle_processed_ids)
             => outcome' = "IntraCycle" /\ UNCHANGED windows]_vars

\* A fuzzy-title duplicate whose id had been recorded as new and is in the
\* exact-ID window once.
C21_Witness ==
    /\ outcome = "Fuzzy"
    /\ pc = "next"
    /\ <<unique_id, title>> \in recorded_new
    /\ appended_ids = seen_headlines
    /\ Cardinality({i \in 1..Len(seen_headlines) : seen_headlines[i] = unique_id}) = 1
    /\ normalize_title(title) \in Range(seen_normalized_titles)

\* The headline about to be processed has no fuzzy match and its id is in
\* the exact-ID window.
SeenIdWithoutFuzzyMatch ==
    /\ pc = "headline"
    /\ ~ScoresAgainstWindow
    /\ unique_id \in Range(seen_headlines)

\* What the exact-ID step leaves: the outcome, the exact-ID window as it
\* was, and the normalized title appended to the fuzzy-title window exactly
\* when it is non-empty and not there.
ExactDuplicateEffect ==
    /\ outcome' = "Exact"
    /\ seen_headlines' = seen_headlines
    /\ seen_normalized_titles' =
          IF normalize_title(title) # <<>>
             /\ normalize_title(title) \notin Range(seen_normalized_titles)
          THEN Pushed(seen_normalized_titles, normalize_title(title), MAX_SEEN_TITLES)
          ELSE seen_normalized_titles

\* C22 as stated: every headline without a fuzzy match whose id is in the
\* exact-ID window is an exact-ID duplicate, with the exact-ID window
\* unchanged and its title backfilled.
C22_SeenIdIsExact ==
    [][SeenIdWithoutFuzzyMatch => ExactDuplicateEffect]_vars

\* C22, amended: a headline whose id is not in the current cycle's set, that
\* has no fuzzy match and whose id is in the exact-ID window is an exact-ID
\* duplicate; the exact-ID window is unchanged and its normalized title is
\* appended to the fuzzy-title window exactly when it is non-empty and not
\* there. A headline whose id is in the current cycle's set is an
\* intra-cycle duplicate and backfills nothing.
C22_ExactAfterIntraCycle ==
    /\ [][(SeenIdWithoutFuzzyMatch /\ unique_id \notin cycle_processed_ids)
             => ExactDuplicateEffect]_vars
    /\ [][(SeenIdWithoutFuzzyMatch /\ unique_id \in cycle_processed_ids)
             => outcome' = "IntraCycle" /\ UNCHANGED windows]_vars

\* An exact-ID duplicate whose title, never recorded with this id, has been
\* backfilled.
C22_Witness ==
    /\ outcome = "Exact"
    /\ pc = "next"
    /\ unique_id \in Range(seen_headlines)
    /\ <<unique_id, title>> \notin recorded_new
    /\ normalize_title(title) # <<>>
    /\ seen_normalized_titles[Len(seen_normalized_titles)] = normalize_title(title)

\* The headline about to be processed passes the three dedup steps.
PassesDedup ==
    /\ pc = "headline"
    /\ unique_id \notin cycle_processed_ids
    /\ ~ScoresAgainstWindow
    /\ unique_id \notin Range(seen_headlines)

\* C23: a headline whose id is not in the current cycle's set, that has no
\* fuzzy match and whose id is not in the exact-ID window is New: its id is
\* appended to the exact-ID window and its normalized title to the
\* fuzzy-title window exactly when it is non-empty; a headline whose
\* normalized title is empty is never a fuzzy-title duplicate and never
\* changes the fuzzy-title window.
C23_NewIsRecorded ==
    /\ [][PassesDedup =>
             /\ outcome' = "New"
             /\ seen_headlines' = Pushed(seen_headlines, unique_id, MAX_SEEN_HEADLINES)
             /\ seen_normalized_titles' =
                   IF normalize_title(title) # <<>>
                   THEN Pushed(seen_normalized_titles, normalize_title(title),
                               MAX_SEEN_TITLES)
                   ELSE seen_normalized_titles]_vars
    /\ [][(pc = "headline" /\ normalize_title(title) = <<>>) =>
             /\ outcome' # "Fuzzy"
             /\ seen_normalized_titles' = seen_normalized_titles]_vars

\* A new headline with an empty normalized title, recorded in the exact-ID
\* window after a headline whose title is in the fuzzy-title window.
C23_Witness ==
    /\ outcome = "New"
    /\ title = TitleBang
    /\ normalize_title(title) = <<>>
    /\ Len(seen_headlines) = 2
    /\ seen_headlines[2] = unique_id
    /\ seen_normalized_titles = <<normalize_title(TitleFedLoud)>>

\* The headline at position pos from the end of the list the scraper of the
\* current source returned.
FromTheEnd == scraped[source].headlines[Len(scraped[source].headlines) + 1 - pos]

\* C24: the headlines of a source's batch are processed in the reverse of
\* the scrape order, one at a time: the dedup step of a headline begins only
\* when the cycle has just entered the source or the processing of the
\* headline before it has ended, with every publish answered, and there is
\* never more than one body of the task at work.
C24_OldestFirstOneAtATime ==
    /\ [](in_cycle <= 1)
    /\ [](pc \in HeadlinePcs =>
             /\ pos \in 1..Len(scraped[source].headlines)
             /\ title = FromTheEnd.title
             /\ url = FromTheEnd.url
             /\ processed_count >= pos - 1)
    /\ [][pc = "headline" =>
             /\ cycle_processed_ids' = cycle_processed_ids
                                           \cup {UniqueId(source, FromTheEnd.url)}
             /\ processed_count' = processed_count + 1
             /\ UNCHANGED <<pos, src_idx>>]_vars
    /\ [][(pc' = "headline" /\ pc # "headline") =>
             \/ pc = "next" /\ pos' = pos + 1 /\ src_idx' = src_idx
                  /\ Len(answers) = Len(publishes)
             \/ pc \in {"scrape", "source_sleep"} /\ pos' = 1]_vars

\* Both headlines of a two-headline list have been processed and their ids
\* were appended to the exact-ID window in the reverse of the scrape order.
C24_Witness ==
    /\ pc = "next"
    /\ pos = 2
    /\ Len(scraped[source].headlines) = 2
    /\ scraped[source].headlines[1].url # scraped[source].headlines[2].url
    /\ seen_headlines = <<UniqueId(source, scraped[source].headlines[2].url),
                          UniqueId(source, scraped[source].headlines[1].url)>>
    /\ outcome = "New"

\* C25: once the sink has answered a publish attempt, with success or with
\* a failure, the body goes through a delay before it takes the next
\* headline: the short sleep, the sleep of a rate limit, or, after the
\* `break` of a refused send, the sleep between two sources.
C25_DelayAfterEveryPublish ==
    [][(pc \in {"send", "resend"} /\ pc' \notin {pc, "cancelled"}) =>
          pc' \in {"sleep", "ratelimit_sleep", "break"}]_vars

\* C26: a send answered with RateLimited is followed by the sleep of
\* retry_after and then by one retry of the same embed; whatever the answer
\* to the retry there is no third attempt, so a headline has at most two
\* publish attempts; a failed retry leaves the cycle at the next headline.
C26_RetryOnceAfterRateLimit ==
    /\ [](/\ Len(publishes) <= 2
          /\ Len(answers) <= Len(publishes)
          /\ Len(publishes) = 2 =>
                /\ answers[1] = "RateLimited"
                /\ publishes[2] = publishes[1])
    /\ [][(pc = "send" /\ answers' = <<"RateLimited">>) =>
             pc' = "ratelimit_sleep" /\ publishes' = publishes]_vars
    /\ [][(pc = "ratelimit_sleep" /\ pc' \notin {pc, "cancelled"}) =>
             pc' = "resend" /\ publishes' = <<embed, embed>>]_vars
    /\ [][(pc = "resend" /\ pc' \notin {pc, "cancelled"}) =>
             /\ pc' = IF answers'[2] = "ok" THEN "sleep" ELSE "next"
             /\ publishes' = publishes
             /\ UNCHANGED <<in_cycle, src_idx, pos, windows>>]_vars
    /\ [][(pc = "next" /\ Len(answers) = 2 /\ pos < Len(Batch)
              /\ pc' \notin {pc, "cancelled"}) =>
             pc' = "headline" /\ pos' = pos + 1]_vars

\* The retry was rate limited too: two attempts, and the cycle is at the
\* point where it takes the next headline of the batch.
C26_Witness ==
    /\ pc = "next"
    /\ answers = <<"RateLimited", "RateLimited">>
    /\ Len(publishes) = 2
    /\ publishes[1] = publishes[2]
    /\ pos < Len(Batch)

\* The sink has just answered a publish attempt, the first or the retry,
\* with Forbidden.
ForbiddenAnswered ==
    /\ Len(answers') = Len(answers) + 1
    /\ answers'[Len(answers')] = "Forbidden"

\* C27: when the sink answers a publish attempt with Forbidden while the
\* source's batch has headlines left, the body leaves the batch: none of the
\* remaining headlines of the source is processed or published in this
\* cycle, and the cycle goes on with the sleep before the next source.
C27_ForbiddenEndsSource ==
    /\ [][(ForbiddenAnswered /\ pos < Len(Batch)) => pc' = "break"]_vars
    /\ [][(pc = "break" /\ pc' \notin {pc, "cancelled"}) =>
             /\ pc' = "source_sleep"
             /\ UNCHANGED <<in_cycle, src_idx, windows, processed_count>>]_vars
    /\ [][(pc = "source_sleep" /\ pc' \notin {pc, "cancelled", "scrape"}) =>
             \/ pc' = "headline" /\ src_idx' > src_idx
             \/ pc' = "idle"]_vars

\* C28: when an exception reaches the handlers at the cycle level, the body
\* ends and the loop of the task keeps running: the next iteration can
\* start, and it starts with an empty set of cycle ids and zeroed counters,
\* while the two windows hold what had been recorded before the exception.
C28_CycleErrorEndsCycleOnly ==
    /\ [][(cycle_failed' /\ ~cycle_failed) =>
             /\ pc \in {"scrape", "translate"}
             /\ pc' = "idle"
             /\ in_cycle' = 0
             /\ cycle_processed_ids' = {}
             /\ processed_count' = 0
             /\ posted_count' = 0
             /\ UNCHANGED <<windows, check_news_launched, heartbeat_launched, bot_closed>>]_vars
    /\ [](cycle_failed =>
             /\ pc = "idle"
             /\ ~bot_closed
             /\ is_running(check_news_launched)
             /\ cycles_started < MaxCycles => ENABLED Tick)
    /\ [][(cycle_failed /\ pc' = "scrape") =>
             /\ in_cycle' = 1
             /\ cycle_processed_ids' = {}
             /\ processed_count' = 0
             /\ posted_count' = 0
             /\ UNCHANGED windows]_vars

\* A body ended by an exception after a headline had been recorded; the
\* loop is running and an iteration is still to come.
C28_Witness ==
    /\ cycle_failed
    /\ pc = "idle"
    /\ seen_headlines # <<>>
    /\ seen_normalized_titles # <<>>
    /\ is_running(check_news_launched)
    /\ cycles_started < MaxCycles

\* C29: a body of heartbeat_task, wherever the body of check_news_task is
\* suspended, leaves the two windows, the set of cycle ids, the counters and
\* everything else of the cycle as they were, and whether it can run depends
\* on none of them; when its publish fails, the heartbeat loop and the news
\* loop keep running: another heartbeat and the next cycle can follow.
C29_HeartbeatIsIndependent ==
    /\ [][HeartbeatLogged =>
             UNCHANGED <<windows, cycle, locals, history, check_news_launched, in_cycle,
                         heartbeat_launched, bot_closed, cycles_started>>]_vars
    /\ [](ENABLED HeartbeatLogged <=>
             (~bot_closed /\ is_running(heartbeat_launched) /\ pc \in AwaitPcs))
    /\ [](heartbeat_failed =>
             /\ ~bot_closed
             /\ is_running(heartbeat_launched)
             /\ is_running(check_news_launched)
             /\ pc \in AwaitPcs => ENABLED HeartbeatLogged
             /\ (pc = "idle" /\ cycles_started < MaxCycles) => ENABLED Tick)

\* A heartbeat publish failed while a body of check_news_task was suspended
\* after recording a headline, and an iteration is still to come.
C29_Witness ==
    /\ heartbeat_failed
    /\ in_cycle = 1
    /\ pc \in {"send", "sleep"}
    /\ seen_headlines # <<>>
    /\ cycle_processed_ids # {}
    /\ processed_count > 0
    /\ cycles_started < MaxCycles

\* What llm_handler.deepl_translator can be when DEEPL_API_KEY is missing.
WithoutKey == {InitTranslator(FALSE, built) : built \in BOOLEAN}

\* C30: when DEEPL_API_KEY is missing the bot starts and iterates, every
\* call of translate_en_to_el ends without a request to the translation
\* API and without a translation, and nothing is handed to channel.send in
\* the whole run; when the token or the channel id is missing, no loop is
\* started and no iteration, shutdown or publish ever happens.
C30_MissingCredentials ==
    /\ [](deepl_translator \in WithoutKey =>
             /\ deepl_calls = 0
             /\ deepl_answer = "none"
             /\ greek_translation = <<>>
             /\ embed = NoEmbed
             /\ publishes = <<>>
             /\ answers = <<>>
             /\ posted_count = 0
             /\ pc \notin {"translate", "send", "ratelimit_sleep", "resend"})
    /\ [][(deepl_translator \in WithoutKey /\ translate_calls' > translate_calls) =>
             pc' = "sleep"]_vars
    /\ [](~(DISCORD_BOT_TOKEN /\ DISCORD_CHANNEL_ID) =>
             /\ ~is_running(heartbeat_launched)
             /\ ~is_running(check_news_launched)
             /\ ~bot_closed
             /\ cycles_started = 0
             /\ pc = "idle"
             /\ publishes = <<>>
             /\ seen_headlines = <<>>)

\* Without the key, in the last iteration of a started bot, a headline was
\* handed to translate_en_to_el, which returned without a request.
C30_Witness ==
    /\ deepl_translator \in WithoutKey
    /\ DISCORD_BOT_TOKEN
    /\ DISCORD_CHANNEL_ID
    /\ is_running(check_news_launched)
    /\ cycles_started = MaxCycles
    /\ translate_calls = 1
    /\ deepl_calls = 0
    /\ pc = "sleep"

\* The awaits of the body between the recording of a New headline in the
\* windows and the end of its publish step.
InsidePipeline == {"classify", "translate", "send", "ratelimit_sleep", "resend"}

\* C31: when the process shuts down while a body of check_news_task is
\* running, the body is not stopped inside the pipeline of a headline: it
\* is never cancelled between the recording of the headline in the windows
\* and the end of that headline's publish step.
C31_ShutdownFinishesHeadline ==
    [][pc' = "cancelled" => pc \notin InsidePipeline]_vars

\* C32: the id and the normalized title of a headline are in the windows
\* when it is handed to the classifier, whatever becomes of it afterwards;
\* a headline whose id is in the window of ids is skipped, so an id is not
\* handed to the classifier again while it stays there, and only a headline
\* classified in this cycle, after being recorded, reaches the translator
\* or the sink: a headline that failed is not published in a later cycle.
C32_FailedHeadlineStaysRecorded ==
    /\ [][classify_calls' > classify_calls =>
             /\ pc = "headline"
             /\ unique_id \notin Range(seen_headlines)
             /\ unique_id \in Range(seen_headlines')
             /\ normalize_title(title) # <<>> =>
                   normalize_title(title) \in Range(seen_normalized_titles')]_vars
    /\ [][(pc = "headline" /\ unique_id \in Range(seen_headlines)
              /\ pc' \notin {pc, "cancelled"}) =>
             /\ pc' = "next"
             /\ UNCHANGED <<classify_calls, translate_calls, deepl_calls, publishes,
                            posted_count>>]_vars
    /\ [](pc \in InsidePipeline =>
             /\ outcome = "New"
             /\ classify_calls = 1
             /\ unique_id \in Range(seen_headlines))
    /\ [][Len(publishes') > Len(publishes) => pc \in InsidePipeline]_vars

\* In the second cycle of a bot without translator, a headline with a user
\* keyword that was recorded as new before (its classification or its
\* translation then failed) is skipped as a duplicate, unclassified.
C32_Witness ==
    /\ ~deepl_translator
    /\ cycles_started = 2
    /\ pc = "next"
    /\ outcome \in {"Fuzzy", "Exact"}
    /\ KeywordBoost(title)
    /\ <<unique_id, title>> \in recorded_new
    /\ unique_id \in Range(seen_headlines)
    /\ classify_calls = 0

\* C33: in every reachable state no id is in the window of ids more than
\* once, and the window changes only by the append, on the fuzzy-duplicate
\* path or the New path, of an id it did not hold.
C33_NoRepeatedId ==
    /\ [](\A i, j \in 1..Len(seen_headlines) :
             i # j => seen_headlines[i] # seen_headlines[j])
    /\ [][seen_headlines' # seen_headlines =>
             /\ pc = "headline"
             /\ outcome' \in {"Fuzzy", "New"}
             /\ unique_id \notin Range(seen_headlines)
             /\ seen_headlines' = Pushed(seen_headlines, unique_id, MAX_SEEN_HEADLINES)]_vars

\* A fuzzy duplicate whose id the full window already held, further back
\* than its newest entry: the append was left out.
C33_Witness ==
    /\ outcome = "Fuzzy"
    /\ pc = "next"
    /\ Len(seen_headlines) = MAX_SEEN_HEADLINES
    /\ unique_id \in Range(seen_headlines)
    /\ unique_id # seen_headlines[Len(seen_headlines)]

\* The dedup steps have just classified a headline whose normalized title
\* is not empty as an exact-ID duplicate: the backfill test is reached.
BackfillReached ==
    /\ call' # call
    /\ call'.op = "check_and_record"
    /\ call'.output = "Exact"
    /\ normalize_title(call'.input.title) # <<>>

\* C34: in every reachable state the window of titles holds no empty
\* string and no two entries that are equal or score at or above the
\* threshold against each other; a title is appended only after it scored
\* below the threshold against every entry of the window, and whenever the
\* backfill test is reached the title is not in the window.
C34_TitlesPairwiseBelowThreshold ==
    /\ [](\A i \in 1..Len(seen_normalized_titles) : seen_normalized_titles[i] # <<>>)
    /\ [](\A i, j \in 1..Len(seen_normalized_titles) :
             i < j =>
               /\ seen_normalized_titles[i] # seen_normalized_titles[j]
               /\ token_set_ratio(seen_normalized_titles[j], seen_normalized_titles[i])
                    < FUZZY_MATCH_THRESHOLD)
    /\ [][seen_normalized_titles' # seen_normalized_titles =>
             \A i \in 1..Len(seen_normalized_titles) :
                token_set_ratio(seen_normalized_titles'[Len(seen_normalized_titles')],
                                seen_normalized_titles[i]) < FUZZY_MATCH_THRESHOLD]_vars
    /\ [][BackfillReached =>
             normalize_title(call'.input.title) \notin Range(seen_normalized_titles)]_vars

====
